---- MODULE Spec2Model ----
(***************************************************************************)
(* The streaming conversation controller of the guideants-chat component   *)
(* (client/src/chat/GuideantsChatController.ts with GuideantsChatState.ts, *)
(* GuideantsChatService.ts and GuideantsApi.ts).                           *)
(*                                                                         *)
(* JavaScript is single-threaded: a handler runs without interruption      *)
(* until its next `await`.  Every action below is one such run: a public   *)
(* operation up to its first suspension, or the continuation of an async   *)
(* operation from the completion of the promise it awaited up to the next  *)
(* suspension.  Between two runs any other run may be scheduled.  An       *)
(* `await ensureResolvedIds()` that directly precedes a network call is    *)
(* merged with the issue of that call (the guide configuration is loaded,  *)
(* so it resolves without work).                                           *)
(*                                                                         *)
(* The Conversation Service is the environment.  It keeps one message      *)
(* list per conversation: a message POST that is accepted stores the User  *)
(* message, a `complete` event stores the Assistant message (with content  *)
(* of the service's choosing), a delete removes the last turn.             *)
(***************************************************************************)
EXTENDS Integers, Sequences, FiniteSets, TLC

\* ------------------------------------------------------------------ bounds
MaxSends == 2        \* send requests accepted in one run of the model
MaxEvents == 3       \* stream events delivered in one run of the model
MaxToolBatches == 1  \* batches of tool results: handlers executed, or results submitted by the host
MaxUndos == 2        \* undo requests that reach the service
MaxFaults == 1       \* service calls that fail in one run of the model

MaxInFlight == 2     \* async operations in flight at the same time

MaxMessages == 3     \* messages of a fetched list handed to the view

MaxLines == 4        \* lines of a response body the stream reader reads

Tasks == 1..MaxInFlight

\* string contents are sequences of characters; "" is <<>>
UserText == <<"u">>
\* what the service stores as the assistant's answer
SrvContents == {<<"s">>}
ToolNames == {"t1", "t2"}

NoId == <<>>
NoContent == <<>>

VARIABLES
    conversationId,                 \* state.conversationId, 0 for null
    conversationContext,            \* state.conversationContext, "none" for null
    messages,                       \* state.messages
    isStreaming,                    \* state.isStreaming
    streamingAssistantMessageId,    \* state.streamingAssistantMessageId, NoId for null
    sanitizedMessageContent,        \* state.sanitizedMessageContent, NoContent for null
    inlineError,                    \* state.inlineError, "none" for null
    authError,                      \* state.authError, "none" for null
    displayMode,                    \* state.displayMode
    activeTurnIndex,                \* state.activeTurnIndex, 0 for null
    collapsible,                    \* state.collapsible
    isCollapsed,                    \* state.isCollapsed
    commandMode,                    \* state.commandMode
    toolRegistry,                   \* names with a registered handler
    contextProvider,                \* whether a context provider is installed
    pendingAttachments,             \* state.pendingAttachments: the uploaded files queued for the next send
    maxTurns,                       \* publishedGuideConfig.maxTurns, 0 when not configured
    wire,                           \* the bytes of a response body the stream reader reads
    wirePos,                        \* how many of them reader.read() has handed over
    decoderRest,                    \* the TextDecoder's bytes of an incomplete character
    buffer,                         \* the reader's `buffer`
    currentEventType,               \* the reader's `currentEventType`
    delivered,                      \* the events the reader has passed to onEvent, in order
    srv,                            \* the service: the stored messages of conversation 1, 2, ...
    tasks,                          \* the async operations in flight
    out,                            \* CustomEvents dispatched by the last run, in order
    last,                           \* the last run: what it did, [op, arg, data]
    nSends, nBatches, nUndos,       \* how many were started (bounded)
    nFaults,                        \* how many service calls failed (bounded)
    nEvents                         \* how many stream events were delivered (bounded)

ctlVars == <<conversationId, conversationContext, messages, isStreaming, streamingAssistantMessageId,
             sanitizedMessageContent, inlineError, authError>>
uiVars == <<displayMode, activeTurnIndex, collapsible, isCollapsed, commandMode>>
cntVars == <<nSends, nBatches, nUndos, nFaults, nEvents>>
attVars == <<pendingAttachments, maxTurns>>
rdVars == <<wire, wirePos, decoderRest, buffer, currentEventType, delivered>>
vars == <<ctlVars, uiVars, toolRegistry, contextProvider, attVars, rdVars, srv, tasks, out, last, cntVars>>

\* ------------------------------------------------------------------ messages
Msg(id, role, content) == [id |-> id, role |-> role, content |-> content]

\* `temp-user-${Date.now()}`, `temp-assistant-${Date.now()}`
TempId(kind, t) == <<kind, t>>

\* id.startsWith('temp-')
IsTemp(id) == id[1] \in {"temp-user", "temp-assistant"}

\* messages.filter(m => !m.id.startsWith('temp-'))
NotTemp(m) == ~IsTemp(m.id)
IsPlaceholder(m) == m.id[1] = "temp-assistant"
DropTemp(msgs) == SelectSeq(msgs, NotTemp)

IsUser(m) == m.role = "User"
\* GuideantsChatState.getTurnCount
getTurnCount(msgs) == Len(SelectSeq(msgs, IsUser))

\* messages.find(m => m.id === id): the index of the first match, 0 if none
FindIndex(msgs, id) ==
    IF \E i \in 1..Len(msgs) : msgs[i].id = id
    THEN CHOOSE i \in 1..Len(msgs) :
            /\ msgs[i].id = id
            /\ \A j \in 1..(i - 1) : msgs[j].id # id
    ELSE 0

\* the index of the last Assistant message, 0 if none
LastAssistantIndex(msgs) ==
    IF \E i \in 1..Len(msgs) : msgs[i].role = "Assistant"
    THEN CHOOSE i \in 1..Len(msgs) :
            /\ msgs[i].role = "Assistant"
            /\ \A j \in (i + 1)..Len(msgs) : msgs[j].role # "Assistant"
    ELSE 0

\* an outward CustomEvent
Ev(name) == [name |-> name, a |-> 0, b |-> 0, detail |-> <<>>, seen |-> <<>>]
EvNav(k, n) == [name |-> "turn-navigation", a |-> k, b |-> n, detail |-> <<>>, seen |-> <<>>]

\* ------------------------------------------------------------------ the service
\* the ids the service issues
SrvId(n) == <<"msg", n>>

SrvAppend(hist, role, content) ==
    Append(hist, Msg(SrvId(Len(hist) + 1), role, content))

\* the last turn removed: everything from the last User message on
LastUserIndex(hist) ==
    IF \E i \in 1..Len(hist) : hist[i].role = "User"
    THEN CHOOSE i \in 1..Len(hist) :
            /\ hist[i].role = "User"
            /\ \A j \in (i + 1)..Len(hist) : hist[j].role # "User"
    ELSE 0

SrvDeleteLastTurn(hist) ==
    IF LastUserIndex(hist) = 0 THEN hist
    ELSE SubSeq(hist, 1, LastUserIndex(hist) - 1)

\* ------------------------------------------------------------------ controller state
\* the fields a stream event or a completion reads and writes, as one record
Ctl ==
    [messages |-> messages, isStreaming |-> isStreaming,
     sid |-> streamingAssistantMessageId, san |-> sanitizedMessageContent,
     err |-> inlineError, auth |-> authError,
     out |-> <<>>, spawn |-> <<>>]

Emit(c, e) == [c EXCEPT !.out = Append(@, e)]

\* showError / setInlineError
showError(c, message) == [c EXCEPT !.err = message]

\* the stamps of the temp ids in use
StampsInUse(msgs, sid) ==
    {msgs[i].id[2] : i \in {j \in 1..Len(msgs) : IsTemp(msgs[j].id)}}
    \cup (IF sid # NoId THEN {sid[2]} ELSE {})

\* Date.now(): the millisecond in which the newest temp id in use was minted
\* (same), or a later one; stamps count the distinct milliseconds in use
DateNow(msgs, sid, same) ==
    IF StampsInUse(msgs, sid) = {} THEN 1
    ELSE LET m == CHOOSE x \in StampsInUse(msgs, sid) :
                     \A y \in StampsInUse(msgs, sid) : y <= x
         IN  IF same THEN m ELSE m + 1

\* push a placeholder { id: `temp-assistant-${Date.now()}`, role: 'Assistant', content: '' }
\* and make it the streaming message
PushPlaceholder(c, stamp) ==
    [c EXCEPT !.messages = Append(@, Msg(TempId("temp-assistant", stamp), "Assistant", <<>>)),
              !.sid = TempId("temp-assistant", stamp)]

\* const msg = messages.find(m => m.id === streamingAssistantMessageId); if (msg) msg.content += delta
AppendToStreaming(c, delta) ==
    IF FindIndex(c.messages, c.sid) = 0 THEN c
    ELSE [c EXCEPT !.messages[FindIndex(c.messages, c.sid)].content = @ \o delta]

\* ... if (msg) msg.content = content
SetStreaming(c, content) ==
    IF FindIndex(c.messages, c.sid) = 0 THEN c
    ELSE [c EXCEPT !.messages[FindIndex(c.messages, c.sid)].content = content]

\* case 'token'
OnToken(c, delta, same) ==
    LET c1 == IF c.sid = NoId
              THEN PushPlaceholder([c EXCEPT !.isStreaming = TRUE],
                                   DateNow(c.messages, c.sid, same))
              ELSE c
    IN  IF delta # <<>> THEN AppendToStreaming(c1, delta) ELSE c1

\* case 'assistant_message'
OnAssistantMessage(c, content, same) ==
    LET c1 == IF c.sid = NoId
              THEN PushPlaceholder([c EXCEPT !.isStreaming = TRUE],
                                   DateNow(c.messages, c.sid, same))
              ELSE c
    IN  IF content # <<>> THEN SetStreaming(c1, content) ELSE c1

\* case 'message'
OnMessage(c, content, same) ==
    IF content = <<>> THEN c
    ELSE LET c1 == [c EXCEPT !.san = content]
             c2 == IF c1.sid = NoId
                   THEN PushPlaceholder(c1, DateNow(c1.messages, c1.sid, same))
                   ELSE c1
         IN  SetStreaming(c2, content)

\* the requested tool names that have no registered handler, in request order
RECURSIVE MissingHandlers(_, _)
MissingHandlers(calls, registry) ==
    IF calls = <<>> THEN <<>>
    ELSE IF Head(calls) \notin registry
         THEN <<Head(calls)>> \o MissingHandlers(Tail(calls), registry)
         ELSE MissingHandlers(Tail(calls), registry)

\* an external_tool_call that runs the registered handlers although one is missing
OnExternalToolCallPartial(c, calls, registry) ==
    LET c1 == [c EXCEPT !.isStreaming = FALSE]
    IN  IF calls = <<>> THEN c1
        ELSE IF MissingHandlers(calls, registry) # <<>>
             THEN [Emit(showError(c1, "missing-handlers"), Ev("error")) EXCEPT !.spawn = calls]
             ELSE [c1 EXCEPT !.spawn = calls]

\* case 'external_tool_call': .spawn carries the calls handed to handleRegisteredTools
OnExternalToolCall(c, calls, registry) ==
    LET c1 == [c EXCEPT !.isStreaming = FALSE]
    IN  IF calls = <<>> THEN c1
        ELSE IF MissingHandlers(calls, registry) # <<>>
             THEN Emit(showError(c1, "missing-handlers"), Ev("error"))
             ELSE [c1 EXCEPT !.spawn = calls]

\* an error event that ends the turn
OnErrorEndsTurn(c) ==
    [showError(c, "stream-error") EXCEPT !.isStreaming = FALSE, !.sid = NoId, !.san = NoContent]

\* case 'error': showError(evt.data?.message || 'stream error')
OnError(c) == showError(c, "stream-error")

\* case 'complete' / 'cancelled'
OnComplete(c) ==
    [c EXCEPT !.isStreaming = FALSE, !.sid = NoId, !.san = NoContent]

\* a stream event: its type, its text (delta or content) and its tool calls,
\* each call named by its tool
Event(type, text, calls) == [type |-> type, text |-> text, calls |-> calls]

\* what a listener called by dispatchEvent reads from the state
Observed(c) == <<c.messages, c.isStreaming, c.sid, c.san, c.err>>

\* the notification `wf-${evt.type}` with detail evt.data, dispatched in state c
EvStream(evt, c) ==
    [name |-> evt.type, a |-> 0, b |-> 0, detail |-> evt.text, seen |-> Observed(c)]

\* a handler that re-emits the events it knows only
handleSseEventKnownOnly(c, evt, registry, same) ==
    LET c1 == CASE evt.type = "token" -> OnToken(c, evt.text, same)
                [] evt.type = "assistant_message" -> OnAssistantMessage(c, evt.text, same)
                [] evt.type = "message" -> OnMessage(c, evt.text, same)
                [] evt.type = "external_tool_call" -> OnExternalToolCall(c, evt.calls, registry)
                [] evt.type = "error" -> OnError(c)
                [] evt.type \in {"complete", "cancelled"} -> OnComplete(c)
                [] OTHER -> c
    IN  IF evt.type \in {"token", "assistant_message", "message", "error", "complete", "cancelled"}
        THEN Emit(c1, EvStream(evt, c1)) ELSE c1

\* handleSseEvent: the switch, then the re-emission as `wf-${evt.type}`
handleSseEvent(c, evt, registry, same) ==
    LET c1 == CASE evt.type = "token" -> OnToken(c, evt.text, same)
                [] evt.type = "assistant_message" -> OnAssistantMessage(c, evt.text, same)
                [] evt.type = "message" -> OnMessage(c, evt.text, same)
                [] evt.type = "external_tool_call" -> OnExternalToolCall(c, evt.calls, registry)
                [] evt.type = "error" -> OnError(c)
                [] evt.type \in {"complete", "cancelled"} -> OnComplete(c)
                [] OTHER -> c
    IN  IF evt.type # "external_tool_call" THEN Emit(c1, EvStream(evt, c1)) ELSE c1

\* ------------------------------------------------------------------ async operations
FreeTask ==
    [kind |-> "free", pc |-> "free", conv |-> 0, calls |-> <<>>, idx |-> 0,
     results |-> <<>>, end |-> "none",
     rets |-> <<>>, len0 |-> 0, turns0 |-> 0, deltas |-> <<>>, pure |-> TRUE,
     msg |-> <<>>, alone |-> "no",
     captured |-> "no", clientContext |-> "none", pending |-> <<>>, uploads |-> <<>>]

\* .alone of an operation in flight: "no" once another operation ran since it was
\* called; else "sync" when it was called in normal mode on a list equal to the
\* service's history of the conversation, "yes" when not
Disturbed(tt) ==
    [u \in Tasks |-> IF tt[u].kind = "free" THEN tt[u] ELSE [tt[u] EXCEPT !.alone = "no"]]

Alone(t) == tasks[t].alone # "no" /\ \A u \in Tasks \ {t} : tasks[u].kind = "free"

\* the slot a new async operation takes
FreeSlot ==
    CHOOSE t \in Tasks :
        /\ tasks[t].kind = "free"
        /\ \A u \in 1..(t - 1) : tasks[u].kind # "free"

HasFreeSlot == \E t \in Tasks : tasks[t].kind = "free"

\* how a service call ends: answered, or rejected with a plain error or with an
\* AuthenticationError
Answers == {"ok", "generic", "auth"}

\* write the controller record back
SetCtl(c) ==
    /\ messages' = c.messages
    /\ isStreaming' = c.isStreaming
    /\ streamingAssistantMessageId' = c.sid
    /\ sanitizedMessageContent' = c.san
    /\ inlineError' = c.err
    /\ authError' = c.auth
    /\ out' = c.out

\* the record of a run: the operation, a number and a sequence that describe it,
\* and, when a service call was rejected, how the service answered it
Did(op, arg) == last' = [op |-> op, arg |-> arg, data |-> <<>>, resp |-> "none"]
DidWith(op, arg, data) == last' = [op |-> op, arg |-> arg, data |-> data, resp |-> "none"]
DidFail(op, arg, data, resp) == last' = [op |-> op, arg |-> arg, data |-> data, resp |-> resp]
Quiet == last' = [op |-> "-", arg |-> 0, data |-> <<>>, resp |-> "none"]

\* handleAuthError
handleAuthError(c) ==
    Emit([c EXCEPT !.auth = "auth", !.err = "auth"], Ev("auth-error"))

\* an operation that ends without restoring the streaming flag and cursor
FinallyMissing(c) == c

\* the finally block of performSend and of submitExternalToolResults
Finally(c) ==
    [c EXCEPT !.isStreaming = FALSE, !.sid = NoId, !.san = NoContent]

\* a catch block that leaves the optimistic messages in the list
SendCatchNoRollback(c, kind) ==
    IF kind = "auth" THEN handleAuthError(c)
    ELSE Emit(showError(c, "request-failed"), Ev("error"))

\* the catch block of performSend
SendCatch(c, kind) ==
    LET c1 == [c EXCEPT !.messages = DropTemp(@)]
    IN  IF kind = "auth" THEN handleAuthError(c1)
        ELSE Emit(showError(c1, "request-failed"), Ev("error"))

\* the catch block of submitExternalToolResults
SubmitCatch(c, kind) ==
    IF kind = "auth" THEN handleAuthError(c)
    ELSE Emit(showError(c, "submit-failed"), Ev("error"))

\* catch and finally of the operation task t runs
Fail(t, c, kind) ==
    IF tasks[t].kind = "send" THEN Finally(SendCatch(c, kind))
    ELSE Finally(SubmitCatch(c, kind))

\* loadConversation, from the response of fetchHistory on
Loaded(c, hist) ==
    IF c.san # NoContent
    THEN [c EXCEPT !.messages =
                      IF LastAssistantIndex(hist) > 0
                      THEN [hist EXCEPT ![LastAssistantIndex(hist)].content = c.san]
                      ELSE hist,
                   !.san = NoContent]
    ELSE [c EXCEPT !.messages = hist]

\* what GET conversation answers for conversation id conv (404 gives [])
History(conv) == IF conv \in 1..Len(srv) THEN srv[conv] ELSE <<>>

\* ------------------------------------------------------------------ send
\* a send that leaves the collapsed flag alone
CollapsedAfterSendKept(canCollapse, collapsed) == collapsed

\* if (collapsible && isCollapsed) this.expand(): the collapsed flag afterwards
CollapsedAfterSend(canCollapse, collapsed) ==
    IF canCollapse /\ collapsed THEN FALSE ELSE collapsed

\* performSend up to its first suspension, `await this.ensureResolvedIds()`:
\* expand() when collapsible && isCollapsed, the reset of command mode
performSendEnter(t) ==
    /\ isCollapsed' = CollapsedAfterSend(collapsible, isCollapsed)
    /\ out' = IF collapsible /\ isCollapsed THEN <<Ev("expanded")>> ELSE <<>>
    /\ IF commandMode
       THEN /\ conversationId' = 0
            /\ conversationContext' = "none"
            /\ messages' = <<>>
            /\ authError' = "none"
            /\ activeTurnIndex' = 0
       ELSE UNCHANGED <<conversationId, conversationContext, messages, authError, activeTurnIndex>>
    /\ tasks' = [Disturbed(tasks) EXCEPT ![t] =
                    [FreeTask EXCEPT !.kind = "send", !.pc = "resolve",
                                     !.len0 = Len(messages),
                                     !.turns0 = getTurnCount(messages),
                                     !.alone =
                                        IF \E u \in Tasks : tasks[u].kind # "free" THEN "no"
                                        ELSE IF ~commandMode /\ messages = History(conversationId)
                                             THEN "sync" ELSE "yes"]]
    /\ nSends' = nSends + 1
    /\ UNCHANGED <<isStreaming, streamingAssistantMessageId, sanitizedMessageContent,
                   inlineError, displayMode, collapsible, commandMode, toolRegistry, contextProvider, attVars, rdVars,
                   srv, nBatches, nUndos, nFaults, nEvents>>

\* onSend: the UI's send, with a non-empty input
onSend ==
    IF isStreaming
    THEN /\ Did("sendIgnored", 0)
         /\ out' = <<>>
         /\ UNCHANGED <<ctlVars, uiVars, toolRegistry, contextProvider, attVars, rdVars, srv, tasks, cntVars>>
    ELSE /\ nSends < MaxSends
         /\ HasFreeSlot
         /\ performSendEnter(FreeSlot)
         /\ Did("send", 0)

\* sendMessageWithAttachments: throws while streaming, else performSend
sendMessageWithAttachments ==
    IF isStreaming
    THEN /\ Did("sendRejected", 0)
         /\ out' = <<>>
         /\ UNCHANGED <<ctlVars, uiVars, toolRegistry, contextProvider, attVars, rdVars, srv, tasks, cntVars>>
    ELSE /\ nSends < MaxSends
         /\ HasFreeSlot
         /\ performSendEnter(FreeSlot)
         /\ Did("send", 0)

\* ensureConversation up to its first network call: GET history of the current
\* conversation, or POST a new conversation
ensureConversationIssue(rec) ==
    IF conversationId # 0
    THEN [rec EXCEPT !.pc = "ecFetch", !.conv = conversationId]
    ELSE IF contextProvider /\ conversationContext = "none"
    THEN [rec EXCEPT !.pc = "ecContext", !.conv = 0]
    ELSE [rec EXCEPT !.pc = "ecStart", !.conv = 0]

\* what a context provider gives: a non-empty string (trimmed), something that is
\* no non-empty string (null, undefined, '', blanks, a non-string), or an exception
ContextValues == {"x", "y"}
ProviderReturns == ContextValues \cup {"null", "throws"}

\* a capture that stores whatever the provider gave
CapturedContextUnchecked(result, current) == result

\* the snapshot after the provider gave result: kept when it is a non-empty string
CapturedContext(result, current) ==
    IF result \in ContextValues THEN result ELSE current

\* ensureConversation: the context provider has answered; the snapshot is kept when
\* it is a non-empty string, and startConversation is called
contextCaptured(t, result) ==
    /\ tasks[t].kind \in {"send", "tools"}
    /\ tasks[t].pc = "ecContext"
    /\ conversationContext' = CapturedContext(result, conversationContext)
    /\ tasks' = [tasks EXCEPT ![t].pc = "ecStart", ![t].captured = result]
    /\ out' = <<>>
    /\ DidWith("contextCaptured", 0, <<result>>)
    /\ UNCHANGED <<conversationId, messages, isStreaming, streamingAssistantMessageId,
                   sanitizedMessageContent, inlineError, authError, uiVars,
                   toolRegistry, contextProvider, attVars, rdVars, srv, cntVars>>

\* setContextProvider
setContextProvider(installed) ==
    /\ contextProvider' = installed
    /\ out' = <<>>
    /\ Quiet
    /\ UNCHANGED <<ctlVars, uiVars, toolRegistry, attVars, rdVars, srv, tasks, cntVars>>

\* the uploaded files a send may find queued
AttachmentIds == {"a1", "a2"}

InQueue(q, a) == \E i \in 1..Len(q) : q[i] = a

\* .pending of a send in flight: the attachments it took off the queue; .uploads: the
\* attachments uploaded since it took them

\* does q hold every attachment of p
HoldsAll(q, p) == \A i \in 1..Len(p) : InQueue(q, p[i])

\* uploadFiles: service.uploadFile(file) is answered and the file joins the queue
attachmentUploaded(a) ==
    /\ a \in AttachmentIds
    /\ ~InQueue(pendingAttachments, a)
    /\ \A t \in Tasks : ~InQueue(tasks[t].pending, a)
    /\ pendingAttachments' = Append(pendingAttachments, a)
    /\ out' = <<>>
    /\ tasks' = [u \in Tasks |->
                    IF tasks[u].kind = "send" /\ tasks[u].pc # "resolve"
                    THEN [tasks[u] EXCEPT !.uploads = Append(@, a)]
                    ELSE tasks[u]]
    /\ DidWith("uploaded", 0, <<a>>)
    /\ UNCHANGED <<ctlVars, uiVars, toolRegistry, contextProvider, maxTurns, rdVars, srv, cntVars>>

\* the turn limits a published guide's configuration may carry
TurnLimits == {0, 1}

\* initialize: fetchConfig() is answered before the first send goes on
configLoaded(n) ==
    /\ n \in TurnLimits
    /\ nSends = 0
    /\ maxTurns = 0
    /\ n # 0
    /\ maxTurns' = n
    /\ out' = <<>>
    /\ Did("configLoaded", n)
    /\ UNCHANGED <<ctlVars, uiVars, toolRegistry, contextProvider, pendingAttachments, rdVars, srv, tasks, cntVars>>

\* the queue after performSend's catch: the attachments the send took, if any,
\* are assigned back
QueueAfterCatch(pending, queue) == IF Len(pending) > 0 THEN pending ELSE queue

\* performSend from the return of ensureResolvedIds to `await this.ensureConversation()`:
\* the queue is taken, the limits are checked, the turn is started
performSendChecked(t, tooLong) ==
    /\ tasks[t].kind = "send"
    /\ tasks[t].pc = "resolve"
    /\ IF tooLong
       THEN /\ pendingAttachments' = pendingAttachments
            /\ tasks' = [tasks EXCEPT ![t] = FreeTask]
            /\ out' = <<>>
            /\ DidWith("sendTooLong", 0, pendingAttachments)
            /\ inlineError' = "too-long"
            /\ UNCHANGED isStreaming
       ELSE IF maxTurns # 0 /\ getTurnCount(messages) >= maxTurns
       THEN /\ pendingAttachments' = <<>>
            /\ tasks' = [tasks EXCEPT ![t] = FreeTask]
            /\ out' = <<>>
            /\ DidWith("sendMaxTurns", 0, pendingAttachments)
            /\ inlineError' = "max-turns"
            /\ UNCHANGED isStreaming
       ELSE /\ pendingAttachments' = <<>>
            /\ isStreaming' = TRUE
            /\ out' = <<Ev("stream-start")>>
            /\ tasks' = [tasks EXCEPT ![t] =
                           [ensureConversationIssue(tasks[t]) EXCEPT !.pending = pendingAttachments]]
            /\ Did("sendStart", 0)
            /\ UNCHANGED inlineError
    /\ UNCHANGED <<conversationId, conversationContext, messages, streamingAssistantMessageId,
                   sanitizedMessageContent, authError, uiVars,
                   toolRegistry, contextProvider, maxTurns, rdVars, srv, cntVars>>

performSendStart(t) == performSendChecked(t, FALSE)

\* the operation of task t ends with catch and finally: kind is the error thrown,
\* resp the answer of the service that made the client throw it
ThrowsOn(t, kind, resp) ==
    /\ SetCtl(Fail(t, Ctl, kind))
    /\ tasks' = [tasks EXCEPT ![t] = FreeTask]
    /\ DidFail(IF tasks[t].kind = "send" THEN "sendFailed" ELSE "submitFailed",
               tasks[t].len0,
               IF ~Alone(t) THEN <<>>
               ELSE IF tasks[t].alone = "sync" THEN <<"alone", "sync">> ELSE <<"alone">>,
               resp)
    /\ pendingAttachments' = IF tasks[t].kind = "send"
                             THEN QueueAfterCatch(tasks[t].pending, pendingAttachments)
                             ELSE pendingAttachments
    /\ UNCHANGED <<conversationId, conversationContext, uiVars, toolRegistry, contextProvider, maxTurns, rdVars, srv, nSends, nBatches, nUndos, nEvents>>

Throws(t, kind) == ThrowsOn(t, kind, kind)

\* the service call task t awaits is answered with resp and the client throws kind
FailsOn(t, kind, resp) ==
    /\ nFaults < MaxFaults
    /\ nFaults' = nFaults + 1
    /\ ThrowsOn(t, kind, resp)

\* the service call task t awaits is rejected
Fails(t, kind) == FailsOn(t, kind, kind)

\* what the client throws when the stream request is answered with an error:
\* streamAssistantMessage throws AuthenticationError on a structured 401/503,
\* submitToolResults throws Error(`HTTP ...`) on every answer that is not ok
Thrown(kind, resp) == IF kind = "tools" THEN "generic" ELSE resp

\* ensureConversation: startConversation answers
conversationStarted(t, r) ==
    /\ tasks[t].kind \in {"send", "tools"}
    /\ tasks[t].pc = "ecStart"
    /\ IF r = "ok"
       THEN /\ srv' = Append(srv, <<>>)
            /\ conversationId' = Len(srv) + 1
            /\ UNCHANGED conversationContext
            /\ tasks' = [tasks EXCEPT ![t].pc = "ecLoad", ![t].conv = Len(srv) + 1]
            /\ out' = <<>>
            /\ Quiet
            /\ UNCHANGED <<messages, isStreaming, streamingAssistantMessageId,
                           sanitizedMessageContent, inlineError, authError, uiVars,
                           toolRegistry, contextProvider, attVars, rdVars, cntVars>>
       ELSE Fails(t, r)

\* performSend after ensureConversation: the optimistic User message and the
\* Assistant placeholder
pushOptimistic(c, stamp) ==
    PushPlaceholder(
        [c EXCEPT !.messages = Append(@, Msg(TempId("temp-user", stamp), "User", UserText))],
        stamp)

\* a send that pins the cursor to the first turn
CursorAfterPushPinned(mode, cursor) == IF mode = "last-turn" THEN 1 ELSE cursor

\* if (displayMode === 'last-turn') activeTurnIndex = null
CursorAfterPush(mode, cursor) == IF mode = "last-turn" THEN 0 ELSE cursor

\* ensureConversation: fetchHistory answers; then up to the stream request
historyLoaded(t, r, same) ==
    /\ tasks[t].kind \in {"send", "tools"}
    /\ tasks[t].pc \in {"ecFetch", "ecLoad"}
    /\ IF r = "ok"
       THEN LET c == Loaded(Ctl, History(tasks[t].conv))
                stamp == DateNow(c.messages, c.sid, same)
            IN  /\ SetCtl(IF tasks[t].kind = "send"
                          THEN pushOptimistic(c, stamp)
                          ELSE PushPlaceholder(c, stamp))
                /\ activeTurnIndex' = IF tasks[t].kind = "send"
                                      THEN CursorAfterPush(displayMode, activeTurnIndex)
                                      ELSE activeTurnIndex
                /\ tasks' = [tasks EXCEPT ![t].pc = "open", ![t].conv = conversationId,
                                           ![t].clientContext =
                                              IF tasks[t].kind = "send"
                                              THEN conversationContext ELSE "none"]
                /\ Quiet
                /\ UNCHANGED <<conversationId, conversationContext, displayMode, collapsible, isCollapsed,
                               commandMode, toolRegistry, contextProvider, attVars, rdVars, srv, cntVars>>
       ELSE Fails(t, r)

\* streamResponse / submitToolResults: the POST is answered; a conversation the
\* service does not know is a plain HTTP error
streamOpened(t, r) ==
    /\ tasks[t].kind \in {"send", "tools"}
    /\ tasks[t].pc = "open"
    /\ IF tasks[t].conv \notin 1..Len(srv)
       THEN /\ r = "ok"
            /\ Throws(t, "generic")
            /\ UNCHANGED nFaults
       ELSE IF r = "ok"
       THEN /\ srv' = IF tasks[t].kind = "send"
                      THEN [srv EXCEPT ![tasks[t].conv] = SrvAppend(@, "User", UserText)]
                      ELSE srv
            /\ tasks' = [tasks EXCEPT ![t].pc = "stream"]
            /\ out' = <<>>
            /\ Quiet
            /\ UNCHANGED <<ctlVars, uiVars, toolRegistry, contextProvider, attVars, rdVars, cntVars>>
       ELSE FailsOn(t, Thrown(tasks[t].kind, r), r)

\* handleRegisteredTools up to its first suspension: the first handler is invoked
ToolTask(calls) ==
    [FreeTask EXCEPT !.kind = "tools", !.pc = "handler", !.calls = calls, !.idx = 1]

\* one event of the stream is read and handled
streamEvent(t, evt, answer, same) ==
    /\ tasks[t].kind \in {"send", "tools"}
    /\ tasks[t].pc = "stream"
    /\ tasks[t].end = "none"
    /\ nEvents < MaxEvents
    /\ nEvents' = nEvents + 1
    /\ LET c == handleSseEvent(Ctl, evt, toolRegistry, same)
           rec == [tasks[t] EXCEPT
                      !.end = IF evt.type \in {"complete", "cancelled", "external_tool_call"}
                              THEN evt.type ELSE @,
                      !.pure = @ /\ evt.type \in {"token", "complete"},
                      !.deltas = IF evt.type = "token" THEN @ \o evt.text ELSE @,
                      !.msg = IF evt.type = "message" /\ evt.text # <<>> THEN evt.text ELSE @]
       IN  /\ SetCtl(c)
           /\ IF c.spawn # <<>>
              THEN /\ nBatches < MaxToolBatches
                   /\ HasFreeSlot
                   /\ tasks' = [tasks EXCEPT ![t] = [rec EXCEPT !.alone = "no"],
                                              ![FreeSlot] = ToolTask(c.spawn)]
                   /\ nBatches' = nBatches + 1
              ELSE /\ tasks' = [tasks EXCEPT ![t] = rec]
                   /\ nBatches' = nBatches
    /\ srv' = IF evt.type = "complete"
              THEN [srv EXCEPT ![tasks[t].conv] = SrvAppend(@, "Assistant", answer)]
              ELSE srv
    /\ DidWith(evt.type, 0, IF evt.type = "external_tool_call" THEN evt.calls ELSE evt.text)
    /\ UNCHANGED <<conversationId, conversationContext, uiVars, toolRegistry, contextProvider, attVars, rdVars, nSends, nUndos, nFaults>>

\* the stream ends: streamMessage / submitExternalToolResults go on to loadConversation
streamEnded(t) ==
    /\ tasks[t].kind \in {"send", "tools"}
    /\ tasks[t].pc = "stream"
    /\ IF conversationId # 0
       THEN /\ tasks' = [tasks EXCEPT ![t].pc = "final", ![t].conv = conversationId]
            /\ out' = <<>>
            /\ Quiet
            /\ UNCHANGED ctlVars
       ELSE /\ SetCtl(Finally(Emit(Ctl, Ev("complete"))))
            /\ tasks' = [tasks EXCEPT ![t] = FreeTask]
            /\ Did(IF tasks[t].kind = "send" THEN "sendDone" ELSE "submitDone", 0)
            /\ UNCHANGED <<conversationId, conversationContext>>
    /\ UNCHANGED <<uiVars, toolRegistry, contextProvider, attVars, rdVars, srv, cntVars>>

\* reader.read() rejects
streamFailed(t) ==
    /\ tasks[t].kind \in {"send", "tools"}
    /\ tasks[t].pc = "stream"
    /\ Fails(t, "generic")

\* the history fetch after the stream answers: wf-complete, then finally
finalLoaded(t, r) ==
    /\ tasks[t].kind \in {"send", "tools"}
    /\ tasks[t].pc = "final"
    /\ IF r = "ok"
       THEN /\ SetCtl(Finally(Emit(Loaded(Ctl, History(tasks[t].conv)), Ev("complete"))))
            /\ tasks' = [tasks EXCEPT ![t] = FreeTask]
            /\ DidWith(IF tasks[t].kind = "send" THEN "sendDone" ELSE "submitDone", 0,
                       IF tasks[t].end = "complete" THEN tasks[t].msg ELSE <<>>)
            /\ UNCHANGED <<conversationId, conversationContext, uiVars, toolRegistry, contextProvider, attVars, rdVars, srv, cntVars>>
       ELSE Fails(t, r)

\* ------------------------------------------------------------------ tool calls
HandlerOutcomes == {"ok", "null", "throw"}

\* the result a handler returns for call i, or the one synthesized when it throws
ToolResult(i, name, outcome) ==
    [toolCallId |-> i, name |-> name, content |-> IF outcome = "throw" THEN "error" ELSE "ok"]

\* a batch in which a throwing handler contributes no result
CollectResultDropsThrow(results, i, name, outcome) ==
    IF outcome \in {"null", "throw"} THEN results
    ELSE Append(results, ToolResult(i, name, outcome))

\* results after the handler of call i ended with outcome
CollectResult(results, i, name, outcome) ==
    IF outcome = "null" THEN results ELSE Append(results, ToolResult(i, name, outcome))

\* handleRegisteredTools: the awaited handler ends; the next one is invoked, or, after
\* the last, submitExternalToolResults runs up to `await this.ensureConversation()`
handlerReturned(t, outcome) ==
    /\ tasks[t].kind = "tools"
    /\ tasks[t].pc = "handler"
    /\ LET i == tasks[t].idx
           res == CollectResult(tasks[t].results, i, tasks[t].calls[i], outcome)
           rec == [tasks[t] EXCEPT !.results = res, !.rets = Append(@, outcome)]
       IN  IF i < Len(tasks[t].calls)
           THEN /\ tasks' = [tasks EXCEPT ![t] = [rec EXCEPT !.idx = i + 1]]
                /\ out' = <<>>
                /\ Did("handlerReturned", 0)
                /\ UNCHANGED isStreaming
           ELSE IF res = <<>> \/ isStreaming
                THEN /\ tasks' = [tasks EXCEPT ![t] = FreeTask]
                     /\ out' = <<>>
                     /\ DidWith(IF res = <<>> THEN "noResults" ELSE "submitSkipped",
                                Len(res), rec.rets)
                     /\ UNCHANGED isStreaming
                ELSE /\ isStreaming' = TRUE
                     /\ out' = <<Ev("stream-start")>>
                     /\ tasks' = [tasks EXCEPT ![t] = ensureConversationIssue(rec)]
                     /\ Did("submit", 0)
    /\ UNCHANGED <<conversationId, conversationContext, messages, streamingAssistantMessageId,
                   sanitizedMessageContent, inlineError, authError, uiVars,
                   toolRegistry, contextProvider, attVars, rdVars, srv, cntVars>>

\* ------------------------------------------------------------------ manual protocol
\* beginResumeStream: enter streaming mode, with a placeholder when there is no
\* streaming message
beginResumeStream(same) ==
    /\ IF isStreaming /\ streamingAssistantMessageId # NoId
       THEN /\ UNCHANGED <<messages, isStreaming, streamingAssistantMessageId, tasks>>
            /\ Did("beginResumeIgnored", 0)
       ELSE /\ isStreaming' = TRUE
            /\ IF streamingAssistantMessageId = NoId
               THEN LET c == PushPlaceholder(Ctl, DateNow(messages, NoId, same))
                    IN  /\ messages' = c.messages
                        /\ streamingAssistantMessageId' = c.sid
               ELSE UNCHANGED <<messages, streamingAssistantMessageId>>
            /\ tasks' = Disturbed(tasks)
            /\ Did("beginResumeStream", 0)
    /\ out' = <<>>
    /\ UNCHANGED <<conversationId, conversationContext, sanitizedMessageContent, inlineError,
                   authError, uiVars, toolRegistry, contextProvider, attVars, rdVars, srv, cntVars>>

\* ingestStreamEvent: an event the host read from a stream of its own is handled
ingestStreamEvent(evt, same) ==
    /\ nEvents < MaxEvents
    /\ nEvents' = nEvents + 1
    /\ LET c == handleSseEvent(Ctl, evt, toolRegistry, same)
       IN  /\ SetCtl(c)
           /\ IF c.spawn # <<>>
              THEN /\ nBatches < MaxToolBatches
                   /\ HasFreeSlot
                   /\ tasks' = [Disturbed(tasks) EXCEPT ![FreeSlot] = ToolTask(c.spawn)]
                   /\ nBatches' = nBatches + 1
              ELSE /\ tasks' = Disturbed(tasks)
                   /\ nBatches' = nBatches
    /\ DidWith(evt.type, 1, IF evt.type = "external_tool_call" THEN evt.calls ELSE evt.text)
    /\ UNCHANGED <<conversationId, conversationContext, uiVars, toolRegistry, contextProvider, attVars, rdVars,
                   srv, nSends, nUndos, nFaults>>

\* the result lists a host submits
HostResults == {<<>>, <<ToolResult(1, "t1", "ok")>>}

\* submitExternalToolResults called by the host, up to `await this.ensureConversation()`
submitExternalToolResults(results) ==
    /\ IF results = <<>> \/ isStreaming
       THEN /\ out' = <<>>
            /\ Did(IF results = <<>> THEN "hostSubmitEmpty" ELSE "hostSubmitIgnored", Len(results))
            /\ UNCHANGED <<isStreaming, tasks, nBatches>>
       ELSE /\ HasFreeSlot
            /\ nBatches < MaxToolBatches
            /\ nBatches' = nBatches + 1
            /\ isStreaming' = TRUE
            /\ out' = <<Ev("stream-start")>>
            /\ tasks' = [Disturbed(tasks) EXCEPT ![FreeSlot] =
                            ensureConversationIssue(
                                [FreeTask EXCEPT !.kind = "tools", !.results = results,
                                                 !.len0 = Len(messages),
                                                 !.alone =
                                                    IF \E u \in Tasks : tasks[u].kind # "free"
                                                    THEN "no" ELSE "yes"])]
            /\ Did("hostSubmit", Len(results))
    /\ UNCHANGED <<conversationId, conversationContext, messages, streamingAssistantMessageId,
                   sanitizedMessageContent, inlineError, authError, uiVars,
                   toolRegistry, contextProvider, attVars, rdVars, srv, nSends, nUndos, nFaults, nEvents>>

\* registerTool
registerTool(name) ==
    /\ name \notin toolRegistry
    /\ toolRegistry' = toolRegistry \cup {name}
    /\ UNCHANGED <<contextProvider, attVars, rdVars>>
    /\ out' = <<>>
    /\ Quiet
    /\ UNCHANGED <<ctlVars, uiVars, srv, tasks, cntVars>>

\* ------------------------------------------------------------------ undo, restart, clear
\* whether the service is streaming an answer in conversation conv
SrvStreaming(conv) ==
    \E u \in Tasks : tasks[u].pc = "stream" /\ tasks[u].conv = conv /\ tasks[u].end = "none"

\* an undo that is not held back while a response streams
undoReturnsEarlyNotStreaming == commandMode \/ messages = <<>> \/ conversationId = 0

\* onUndo: the conditions under which it returns at once
undoReturnsEarly == commandMode \/ isStreaming \/ messages = <<>> \/ conversationId = 0

\* onUndo up to the DELETE request
onUndo ==
    IF undoReturnsEarly
    THEN /\ Did("undoIgnored", 0)
         /\ out' = <<>>
         /\ UNCHANGED <<ctlVars, uiVars, toolRegistry, contextProvider, attVars, rdVars, srv, tasks, cntVars>>
    ELSE /\ nUndos < MaxUndos
         /\ HasFreeSlot
         /\ tasks' = [Disturbed(tasks) EXCEPT ![FreeSlot] =
                         [FreeTask EXCEPT !.kind = "undo", !.pc = "delete",
                                          !.conv = conversationId, !.len0 = Len(messages),
                                          !.alone =
                                             IF \E u \in Tasks : tasks[u].kind # "free"
                                             THEN "no" ELSE "yes"]]
         /\ nUndos' = nUndos + 1
         /\ out' = <<>>
         /\ Did("undo", 0)
         /\ UNCHANGED <<ctlVars, uiVars, toolRegistry, contextProvider, attVars, rdVars, srv, nSends, nBatches, nFaults, nEvents>>

\* deleteLastTurn: what the service answers to DELETE .../messages/last
DeleteAnswer(conv) ==
    IF conv \notin 1..Len(srv) THEN "none"
    ELSE IF SrvStreaming(conv) THEN "conflict"
    ELSE IF LastUserIndex(srv[conv]) = 0 THEN "none"
    ELSE "deleted"

\* the catch block of onUndo
UndoCatch(c, kind) ==
    IF kind = "auth" THEN handleAuthError(c)
    ELSE Emit(showError(c, "undo-failed"), Ev("undo-error"))

\* onUndo rejects: catch
UndoFails(t, kind) ==
    /\ nFaults < MaxFaults
    /\ nFaults' = nFaults + 1
    /\ SetCtl(UndoCatch(Ctl, kind))
    /\ tasks' = [tasks EXCEPT ![t] = FreeTask]
    /\ DidFail("undoFailed", tasks[t].len0, <<>>, kind)
    /\ UNCHANGED <<conversationId, conversationContext, uiVars, toolRegistry, contextProvider, attVars, rdVars, srv, nSends, nBatches, nUndos, nEvents>>

\* onUndo from the answer of deleteLastTurn to the history request
undoAnswered(t, r) ==
    /\ tasks[t].kind = "undo"
    /\ tasks[t].pc = "delete"
    /\ IF r = "ok"
       THEN LET answer == DeleteAnswer(tasks[t].conv)
            IN  /\ srv' = IF answer = "deleted"
                          THEN [srv EXCEPT ![tasks[t].conv] = SrvDeleteLastTurn(@)]
                          ELSE srv
                /\ IF answer = "conflict"
                   THEN /\ SetCtl(showError(Ctl, "undo-conflict"))
                        /\ tasks' = [tasks EXCEPT ![t] = FreeTask]
                        /\ Did("undoConflict", tasks[t].len0)
                   ELSE IF conversationId = 0
                   THEN /\ SetCtl(Emit(Ctl, Ev("undo-complete")))
                        /\ tasks' = [tasks EXCEPT ![t] = FreeTask]
                        /\ Did(IF answer = "none" THEN "undoNone" ELSE "undoDeleted",
                               tasks[t].len0)
                   ELSE /\ SetCtl(Ctl)
                        /\ tasks' = [tasks EXCEPT
                                        ![t].pc = IF answer = "none" THEN "loadNone"
                                                  ELSE "loadDeleted",
                                        ![t].conv = conversationId]
                        /\ Quiet
                /\ UNCHANGED <<conversationId, conversationContext, uiVars, toolRegistry, contextProvider, attVars, rdVars, cntVars>>
       ELSE UndoFails(t, r)

\* onUndo from the answer of fetchHistory on
undoLoaded(t, r) ==
    /\ tasks[t].kind = "undo"
    /\ tasks[t].pc \in {"loadNone", "loadDeleted"}
    /\ IF r = "ok"
       THEN /\ SetCtl(Emit(Loaded(Ctl, History(tasks[t].conv)), Ev("undo-complete")))
            /\ Did(IF tasks[t].pc = "loadNone" THEN "undoNone" ELSE "undoDeleted",
                   tasks[t].len0)
            /\ tasks' = [tasks EXCEPT ![t] = FreeTask]
            /\ UNCHANGED <<conversationId, conversationContext, uiVars, toolRegistry, contextProvider, attVars, rdVars, srv, cntVars>>
       ELSE UndoFails(t, r)

\* clearConversation
clearConversation ==
    /\ conversationId' = 0
    /\ conversationContext' = "none"
    /\ messages' = <<>>
    /\ authError' = "none"
    /\ activeTurnIndex' = 0
    /\ tasks' = Disturbed(tasks)
    /\ out' = <<>>
    /\ Did("clearConversation", 0)
    /\ UNCHANGED <<isStreaming, streamingAssistantMessageId, sanitizedMessageContent,
                   inlineError, displayMode, collapsible, isCollapsed, commandMode,
                   toolRegistry, contextProvider, attVars, rdVars, srv, cntVars>>

\* onRestart
onRestart ==
    IF commandMode \/ isStreaming
    THEN /\ Did("restartIgnored", 0)
         /\ out' = <<>>
         /\ UNCHANGED <<ctlVars, uiVars, toolRegistry, contextProvider, attVars, rdVars, srv, tasks, cntVars>>
    ELSE /\ conversationId' = 0
         /\ conversationContext' = "none"
         /\ messages' = <<>>
         /\ authError' = "none"
         /\ activeTurnIndex' = 0
         /\ inlineError' = "none"
         /\ tasks' = Disturbed(tasks)
         /\ out' = <<Ev("restart")>>
         /\ Did("restart", 0)
         /\ UNCHANGED <<isStreaming, streamingAssistantMessageId, sanitizedMessageContent,
                        displayMode, collapsible, isCollapsed, commandMode,
                        toolRegistry, contextProvider, attVars, rdVars, srv, cntVars>>

\* ------------------------------------------------------------------ display cursor, collapse
\* the turn numbers a host may ask for
TurnArgs == 0..(MaxSends + 1)

\* a goToTurn that does not check the turn number against the turn count
goToTurnIndexUnchecked(turnIndex) ==
    IF displayMode # "last-turn" THEN activeTurnIndex ELSE turnIndex

\* goToTurn as a function of the state: the new activeTurnIndex and the events
goToTurnIndex(turnIndex) ==
    IF displayMode # "last-turn" THEN activeTurnIndex
    ELSE IF turnIndex < 1 \/ turnIndex > getTurnCount(messages) THEN activeTurnIndex
    ELSE turnIndex

\* goToTurn as a function of the state: the notifications dispatched
goToTurnEvents(turnIndex) ==
    IF displayMode # "last-turn" THEN <<>>
    ELSE IF turnIndex < 1 \/ turnIndex > getTurnCount(messages) THEN <<>>
    ELSE <<EvNav(turnIndex, getTurnCount(messages))>>

goToTurn(turnIndex) ==
    /\ activeTurnIndex' = goToTurnIndex(turnIndex)
    /\ out' = goToTurnEvents(turnIndex)
    /\ Did("goToTurn", turnIndex)
    /\ UNCHANGED <<ctlVars, displayMode, collapsible, isCollapsed, commandMode,
                   toolRegistry, contextProvider, attVars, rdVars, srv, tasks, cntVars>>

\* activeTurnIndex ?? turn count
CurrentTurn == IF activeTurnIndex = 0 THEN getTurnCount(messages) ELSE activeTurnIndex

goToNextTurn ==
    /\ IF displayMode = "last-turn" /\ CurrentTurn < getTurnCount(messages)
       THEN /\ activeTurnIndex' = goToTurnIndex(CurrentTurn + 1)
            /\ out' = goToTurnEvents(CurrentTurn + 1)
       ELSE /\ out' = <<>>
            /\ UNCHANGED activeTurnIndex
    /\ Did("goToNextTurn", 0)
    /\ UNCHANGED <<ctlVars, displayMode, collapsible, isCollapsed, commandMode,
                   toolRegistry, contextProvider, attVars, rdVars, srv, tasks, cntVars>>

goToPreviousTurn ==
    /\ IF displayMode = "last-turn" /\ CurrentTurn > 1
       THEN /\ activeTurnIndex' = goToTurnIndex(CurrentTurn - 1)
            /\ out' = goToTurnEvents(CurrentTurn - 1)
       ELSE /\ out' = <<>>
            /\ UNCHANGED activeTurnIndex
    /\ Did("goToPreviousTurn", 0)
    /\ UNCHANGED <<ctlVars, displayMode, collapsible, isCollapsed, commandMode,
                   toolRegistry, contextProvider, attVars, rdVars, srv, tasks, cntVars>>

\* getCurrentTurnIndex: null (0) outside last-turn mode
getCurrentTurnIndex ==
    IF displayMode # "last-turn" THEN 0 ELSE CurrentTurn

\* getDisplayTurns: the number of the one turn shown in last-turn mode, 0 when all
\* turns are shown or there is none
VisibleTurn ==
    IF displayMode = "last-turn" /\ getTurnCount(messages) > 0
    THEN IF CurrentTurn >= 1 /\ CurrentTurn <= getTurnCount(messages)
         THEN CurrentTurn
         ELSE getTurnCount(messages)
    ELSE 0

\* the view's turn navigation 'last'
goToLatestTurn ==
    /\ activeTurnIndex' = 0
    /\ out' = <<>>
    /\ Did("goToLatestTurn", 0)
    /\ UNCHANGED <<ctlVars, displayMode, collapsible, isCollapsed, commandMode,
                   toolRegistry, contextProvider, attVars, rdVars, srv, tasks, cntVars>>

setDisplayMode(mode) ==
    /\ displayMode' = mode
    /\ out' = <<>>
    /\ Quiet
    /\ UNCHANGED <<ctlVars, activeTurnIndex, collapsible, isCollapsed, commandMode,
                   toolRegistry, contextProvider, attVars, rdVars, srv, tasks, cntVars>>

setCommandMode(enabled) ==
    /\ commandMode' = enabled
    /\ out' = <<>>
    /\ Quiet
    /\ UNCHANGED <<ctlVars, displayMode, activeTurnIndex, collapsible, isCollapsed,
                   toolRegistry, contextProvider, attVars, rdVars, srv, tasks, cntVars>>

setCollapsible(enabled) ==
    /\ collapsible' = enabled
    /\ isCollapsed' = IF enabled THEN isCollapsed ELSE FALSE
    /\ out' = <<>>
    /\ Quiet
    /\ UNCHANGED <<ctlVars, displayMode, activeTurnIndex, commandMode,
                   toolRegistry, contextProvider, attVars, rdVars, srv, tasks, cntVars>>

\* attributeChangedCallback('collapsible'): the host sets or removes the attribute
collapsibleAttributeChanged(present) ==
    /\ collapsible' = present
    /\ out' = <<>>
    /\ Did("collapsibleAttribute", 0)
    /\ UNCHANGED <<ctlVars, displayMode, activeTurnIndex, isCollapsed, commandMode,
                   toolRegistry, contextProvider, attVars, rdVars, srv, tasks, cntVars>>

collapse ==
    /\ isCollapsed' = IF collapsible THEN TRUE ELSE isCollapsed
    /\ out' = IF collapsible THEN <<Ev("collapsed")>> ELSE <<>>
    /\ Did("collapse", 0)
    /\ UNCHANGED <<ctlVars, displayMode, activeTurnIndex, collapsible, commandMode,
                   toolRegistry, contextProvider, attVars, rdVars, srv, tasks, cntVars>>

expand ==
    /\ isCollapsed' = IF collapsible THEN FALSE ELSE isCollapsed
    /\ out' = IF collapsible THEN <<Ev("expanded")>> ELSE <<>>
    /\ Did("expand", 0)
    /\ UNCHANGED <<ctlVars, displayMode, activeTurnIndex, collapsible, commandMode,
                   toolRegistry, contextProvider, attVars, rdVars, srv, tasks, cntVars>>

toggleCollapse ==
    /\ isCollapsed' = IF collapsible THEN ~isCollapsed ELSE isCollapsed
    /\ out' = IF ~collapsible THEN <<>>
              ELSE IF isCollapsed THEN <<Ev("expanded")>> ELSE <<Ev("collapsed")>>
    /\ Did("toggleCollapse", 0)
    /\ UNCHANGED <<ctlVars, displayMode, activeTurnIndex, collapsible, commandMode,
                   toolRegistry, contextProvider, attVars, rdVars, srv, tasks, cntVars>>

\* ------------------------------------------------------------------ the stream reader
\* a response body is a sequence of bytes, each written as a string: an ASCII
\* character is one byte, "LF" is the newline, the character "é" is the two
\* bytes "c3" "a9"
EventPrefix == <<"e", "v", "e", "n", "t", ":", " ">>
DataPrefix == <<"d", "a", "t", "a", ":", " ">>
DataType == <<"d", "a", "t", "a">>

\* the lines a body is made of: event lines of two types, data lines with a JSON
\* payload and with a payload that is no JSON, the blank line, a comment line
WireLines ==
    {EventPrefix \o <<"a">>, EventPrefix \o <<"c3", "a9">>,
     DataPrefix \o <<"1">>, DataPrefix \o <<"{">>,
     <<>>, <<":", "k">>}

\* the bodies: up to MaxLines lines, each ended by a newline
RECURSIVE JoinLines(_)
JoinLines(lines) ==
    IF lines = <<>> THEN <<>> ELSE lines[1] \o <<"LF">> \o JoinLines(Tail(lines))

Wires == {JoinLines(ls) : ls \in UNION {[1..n -> WireLines] : n \in 0..MaxLines}}

\* TextDecoder.decode(value, {stream: true}): the text of the complete characters
\* and the bytes kept for the next call; "?" is U+FFFD
RECURSIVE DecodeFrom(_, _, _)
DecodeFrom(bytes, i, acc) ==
    IF i > Len(bytes) THEN acc
    ELSE IF acc.rest # <<>>
    THEN IF bytes[i] = "a9"
         THEN DecodeFrom(bytes, i + 1, [text |-> Append(acc.text, "é"), rest |-> <<>>])
         ELSE DecodeFrom(bytes, i, [text |-> Append(acc.text, "?"), rest |-> <<>>])
    ELSE IF bytes[i] = "c3"
    THEN DecodeFrom(bytes, i + 1, [acc EXCEPT !.rest = <<"c3">>])
    ELSE IF bytes[i] = "a9"
    THEN DecodeFrom(bytes, i + 1, [acc EXCEPT !.text = Append(@, "?")])
    ELSE DecodeFrom(bytes, i + 1, [acc EXCEPT !.text = Append(@, bytes[i])])

Decode(rest, bytes) == DecodeFrom(bytes, 1, [text |-> <<>>, rest |-> rest])

\* buffer.split('\n') and lines.pop(): the complete lines and the rest
RECURSIVE SplitFrom(_, _, _)
SplitFrom(text, i, acc) ==
    IF i > Len(text) THEN acc
    ELSE IF text[i] = "LF"
    THEN SplitFrom(text, i + 1, [lines |-> Append(acc.lines, acc.rest), rest |-> <<>>])
    ELSE SplitFrom(text, i + 1, [acc EXCEPT !.rest = Append(@, text[i])])

\* a reader that starts every chunk with an empty buffer
SplitLinesDropRest(buf, text) == SplitFrom(text, 1, [lines |-> <<>>, rest |-> <<>>])

SplitLines(buf, text) == SplitFrom(buf \o text, 1, [lines |-> <<>>, rest |-> <<>>])

\* line.startsWith(prefix), line.slice(n)
StartsWith(line, prefix) ==
    Len(line) >= Len(prefix) /\ SubSeq(line, 1, Len(prefix)) = prefix
Slice(line, n) == SubSeq(line, n + 1, Len(line))

\* JSON.parse: the value of a payload, or that it throws
JsonParse(text) ==
    IF text = <<"1">> THEN [ok |-> TRUE, value |-> 1]
    ELSE [ok |-> FALSE, value |-> 0]

\* a reader for which a payload that is no JSON ends the event type
HandleLineResetOnError(st, line) ==
    IF StartsWith(line, EventPrefix) THEN [st EXCEPT !.type = Slice(line, 7)]
    ELSE IF StartsWith(line, DataPrefix)
    THEN LET parsed == JsonParse(Slice(line, 6))
         IN  IF parsed.ok
             THEN [st EXCEPT !.events =
                      Append(@, [type |-> IF st.type = <<>> THEN DataType ELSE st.type,
                                 data |-> parsed.value])]
             ELSE [st EXCEPT !.type = <<>>]
    ELSE IF line = <<>> THEN [st EXCEPT !.type = <<>>]
    ELSE st

\* the body of `for (const line of lines)`: st.type is currentEventType, st.events
\* the events passed to onEvent
HandleLine(st, line) ==
    IF StartsWith(line, EventPrefix) THEN [st EXCEPT !.type = Slice(line, 7)]
    ELSE IF StartsWith(line, DataPrefix)
    THEN LET parsed == JsonParse(Slice(line, 6))
         IN  IF parsed.ok
             THEN [st EXCEPT !.events =
                      Append(@, [type |-> IF st.type = <<>> THEN DataType ELSE st.type,
                                 data |-> parsed.value])]
             ELSE st
    ELSE IF line = <<>> THEN [st EXCEPT !.type = <<>>]
    ELSE st

RECURSIVE HandleLines(_, _, _)
HandleLines(lines, i, st) ==
    IF i > Len(lines) THEN st ELSE HandleLines(lines, i + 1, HandleLine(st, lines[i]))

\* one turn of `while (true)`: reader.read() hands over the next n bytes
readChunk(n) ==
    /\ wirePos < Len(wire)
    /\ n \in 1..(Len(wire) - wirePos)
    /\ LET d == Decode(decoderRest, SubSeq(wire, wirePos + 1, wirePos + n))
           sp == SplitLines(buffer, d.text)
           st == HandleLines(sp.lines, 1, [type |-> currentEventType, events |-> <<>>])
       IN  /\ decoderRest' = d.rest
           /\ buffer' = sp.rest
           /\ currentEventType' = st.type
           /\ delivered' = delivered \o st.events
           /\ Did("read", 0)
    /\ wirePos' = wirePos + n
    /\ out' = <<>>
    /\ UNCHANGED <<ctlVars, uiVars, toolRegistry, contextProvider, attVars, wire, srv, tasks, cntVars>>

\* a stream reader about to read the response body bytes
InitReader(bytes) ==
    /\ wire = bytes
    /\ wirePos = 0
    /\ decoderRest = <<>>
    /\ buffer = <<>>
    /\ currentEventType = <<>>
    /\ delivered = <<>>

\* ------------------------------------------------------------------ specifications
InitRest ==
    /\ conversationId = 0
    /\ conversationContext = "none"
    /\ messages = <<>>
    /\ isStreaming = FALSE
    /\ streamingAssistantMessageId = NoId
    /\ sanitizedMessageContent = NoContent
    /\ inlineError = "none"
    /\ authError = "none"
    /\ displayMode = "full"
    /\ activeTurnIndex = 0
    /\ collapsible = FALSE
    /\ isCollapsed = FALSE
    /\ toolRegistry = {}
    /\ contextProvider = FALSE
    /\ pendingAttachments = <<>>
    /\ maxTurns = 0
    /\ InitReader(<<>>)
    /\ srv = <<>>
    /\ tasks = [t \in Tasks |-> FreeTask]
    /\ out = <<>>
    /\ last = [op |-> "init", arg |-> 0, data |-> <<>>, resp |-> "none"]
    /\ nSends = 0
    /\ nBatches = 0
    /\ nUndos = 0
    /\ nFaults = 0
    /\ nEvents = 0

\* a component created without the command-mode attribute
Init == commandMode = FALSE /\ InitRest

\* a component created with the command-mode attribute
InitCommand == commandMode = TRUE /\ InitRest

\* the events of a stream that answers with text
TextEvents ==
    {Event("token", <<"a">>, <<>>), Event("token", <<"b">>, <<>>),
     Event("message", <<"c">>, <<>>), Event("complete", <<>>, <<>>)}

\* sending and streaming, with the host clearing the conversation and switching
\* command mode at any time
Next ==
    \/ onSend
    \/ sendMessageWithAttachments
    \/ \E t \in Tasks : performSendStart(t)
    \/ \E t \in Tasks, r \in Answers : conversationStarted(t, r)
    \/ \E t \in Tasks, r \in Answers, same \in BOOLEAN : historyLoaded(t, r, same)
    \/ \E t \in Tasks, r \in Answers : streamOpened(t, r)
    \/ \E t \in Tasks, evt \in TextEvents, answer \in SrvContents, same \in BOOLEAN :
          streamEvent(t, evt, answer, same)
    \/ \E t \in Tasks : streamEnded(t)
    \/ \E t \in Tasks : streamFailed(t)
    \/ \E t \in Tasks, r \in Answers : finalLoaded(t, r)
    \/ clearConversation
    \/ \E enabled \in BOOLEAN : setCommandMode(enabled)

Spec == Init /\ [][Next]_vars

\* the requested tool-call batches
CallBatches == {<<>>, <<"t1">>, <<"t1", "t2">>, <<"t2", "t1">>}

\* the events of a stream that asks for tools
ToolEvents ==
    {Event("token", <<"a">>, <<>>), Event("complete", <<>>, <<>>)}
    \cup {Event("external_tool_call", <<>>, calls) : calls \in CallBatches}

\* tool calls: the host registers handlers, streams ask for tools, handlers run,
\* results are submitted and the stream resumes
NextTools ==
    \/ onSend
    \/ \E t \in Tasks : performSendStart(t)
    \/ \E t \in Tasks : conversationStarted(t, "ok")
    \/ \E t \in Tasks : historyLoaded(t, "ok", FALSE)
    \/ \E t \in Tasks : streamOpened(t, "ok")
    \/ \E t \in Tasks, evt \in ToolEvents, answer \in SrvContents :
          streamEvent(t, evt, answer, FALSE)
    \/ \E t \in Tasks : streamEnded(t)
    \/ \E t \in Tasks : finalLoaded(t, "ok")
    \/ \E t \in Tasks, outcome \in HandlerOutcomes : handlerReturned(t, outcome)
    \/ \E name \in ToolNames : registerTool(name)

SpecTools == Init /\ [][NextTools]_vars

\* the events of a stream that answers at once
ShortEvents == {Event("token", <<"a">>, <<>>), Event("complete", <<>>, <<>>)}

\* undo and restart between sends
NextUndo ==
    \/ onSend
    \/ \E t \in Tasks : performSendStart(t)
    \/ \E t \in Tasks : conversationStarted(t, "ok")
    \/ \E t \in Tasks : historyLoaded(t, "ok", FALSE)
    \/ \E t \in Tasks : streamOpened(t, "ok")
    \/ \E t \in Tasks, evt \in ShortEvents, answer \in SrvContents :
          streamEvent(t, evt, answer, FALSE)
    \/ \E t \in Tasks : streamEnded(t)
    \/ \E t \in Tasks : finalLoaded(t, "ok")
    \/ onUndo
    \/ \E t \in Tasks, r \in Answers : undoAnswered(t, r)
    \/ \E t \in Tasks, r \in Answers : undoLoaded(t, r)
    \/ onRestart
    \/ \E enabled \in BOOLEAN : setCommandMode(enabled)

SpecUndo == Init /\ [][NextUndo]_vars

DisplayModes == {"full", "last-turn"}

\* ------------------------------------------------------------------ the view's turns
\* ConversationRole
Roles == {"User", "Assistant", "System", "Tool"}

\* a grouping that makes a turn of an Assistant message no turn is open for
TurnStepOrphans(acc, msg) ==
    IF msg.role = "User"
    THEN [turns |-> acc.turns \o acc.cur, cur |-> <<[user |-> msg, assistants |-> <<>>]>>]
    ELSE IF msg.role = "Assistant"
    THEN IF acc.cur # <<>>
         THEN [acc EXCEPT !.cur = <<[acc.cur[1] EXCEPT !.assistants = Append(@, msg)]>>]
         ELSE [acc EXCEPT !.turns = Append(@, [user |-> msg, assistants |-> <<>>])]
    ELSE acc

\* the body of the loop of groupMessagesIntoTurns: acc.turns are the turns pushed,
\* acc.cur is currentTurn, <<>> for null
TurnStep(acc, msg) ==
    IF msg.role = "User"
    THEN [turns |-> acc.turns \o acc.cur, cur |-> <<[user |-> msg, assistants |-> <<>>]>>]
    ELSE IF msg.role = "Assistant" /\ acc.cur # <<>>
    THEN [acc EXCEPT !.cur = <<[acc.cur[1] EXCEPT !.assistants = Append(@, msg)]>>]
    ELSE acc

RECURSIVE TurnLoop(_, _, _)
TurnLoop(msgs, i, acc) ==
    IF i > Len(msgs) THEN acc.turns \o acc.cur
    ELSE TurnLoop(msgs, i + 1, TurnStep(acc, msgs[i]))

\* GuideantsChatView.groupMessagesIntoTurns
groupMessagesIntoTurns(msgs) == TurnLoop(msgs, 1, [turns |-> <<>>, cur |-> <<>>])

\* a resolution that shows nothing when the cursor is out of range
getDisplayTurnsStrict(turns, mode, cursor) ==
    IF mode = "last-turn" /\ Len(turns) > 0
    THEN LET targetTurnNumber == IF cursor = 0 THEN Len(turns) ELSE cursor
         IN  IF targetTurnNumber >= 1 /\ targetTurnNumber <= Len(turns)
             THEN <<turns[targetTurnNumber]>>
             ELSE <<>>
    ELSE turns

\* GuideantsChatView.getDisplayTurns
getDisplayTurns(turns, mode, cursor) ==
    IF mode = "last-turn" /\ Len(turns) > 0
    THEN LET targetTurnNumber == IF cursor = 0 THEN Len(turns) ELSE cursor
         IN  IF targetTurnNumber >= 1 /\ targetTurnNumber <= Len(turns)
             THEN <<turns[targetTurnNumber]>>
             ELSE <<turns[Len(turns)]>>
    ELSE turns

\* updateThread, for a list that is not empty: the turns, and the turns displayed
updateThread ==
    /\ LET turns == groupMessagesIntoTurns(messages)
       IN  DidWith("updateThread", 0,
                   <<turns, getDisplayTurns(turns, displayMode, activeTurnIndex)>>)
    /\ out' = <<>>
    /\ UNCHANGED <<ctlVars, uiVars, toolRegistry, contextProvider, attVars, rdVars, srv, tasks, cntVars>>

\* the lists the service may answer: up to MaxMessages messages of any role
MessageLists ==
    UNION {[1..n -> Roles] : n \in 0..MaxMessages}

ListOf(roles) == [i \in 1..Len(roles) |-> Msg(SrvId(i), roles[i], <<"s">>)]

\* a component that shows a fetched list, in either mode, the cursor anywhere
InitView ==
    /\ \E roles \in MessageLists : messages = ListOf(roles)
    /\ displayMode \in DisplayModes
    /\ activeTurnIndex \in 0..(MaxMessages + 1)
    /\ conversationId = 1
    /\ srv = <<messages>>
    /\ conversationContext = "none"
    /\ isStreaming = FALSE
    /\ streamingAssistantMessageId = NoId
    /\ sanitizedMessageContent = NoContent
    /\ inlineError = "none"
    /\ authError = "none"
    /\ collapsible = FALSE
    /\ isCollapsed = FALSE
    /\ commandMode = FALSE
    /\ toolRegistry = {}
    /\ contextProvider = FALSE
    /\ pendingAttachments = <<>>
    /\ maxTurns = 0
    /\ InitReader(<<>>)
    /\ tasks = [t \in Tasks |-> FreeTask]
    /\ out = <<>>
    /\ last = [op |-> "init", arg |-> 0, data |-> <<>>, resp |-> "none"]
    /\ nSends = 0
    /\ nBatches = 0
    /\ nUndos = 0
    /\ nFaults = 0
    /\ nEvents = 0

\* the view renders the list; the host changes the mode and moves the cursor
NextView ==
    \/ updateThread
    \/ \E mode \in DisplayModes : setDisplayMode(mode)
    \/ \E turnIndex \in TurnArgs : goToTurn(turnIndex)

SpecView == InitView /\ [][NextView]_vars

\* a reader about to read a response body
InitStream ==
    /\ \E bytes \in Wires : InitReader(bytes)
    /\ commandMode = FALSE
    /\ conversationId = 0
    /\ conversationContext = "none"
    /\ messages = <<>>
    /\ isStreaming = FALSE
    /\ streamingAssistantMessageId = NoId
    /\ sanitizedMessageContent = NoContent
    /\ inlineError = "none"
    /\ authError = "none"
    /\ displayMode = "full"
    /\ activeTurnIndex = 0
    /\ collapsible = FALSE
    /\ isCollapsed = FALSE
    /\ toolRegistry = {}
    /\ contextProvider = FALSE
    /\ pendingAttachments = <<>>
    /\ maxTurns = 0
    /\ srv = <<>>
    /\ tasks = [t \in Tasks |-> FreeTask]
    /\ out = <<>>
    /\ last = [op |-> "init", arg |-> 0, data |-> <<>>, resp |-> "none"]
    /\ nSends = 0
    /\ nBatches = 0
    /\ nUndos = 0
    /\ nFaults = 0
    /\ nEvents = 0

\* the body is read in chunks of any size
NextStream == \E n \in 1..Len(wire) : readChunk(n)

SpecStream == InitStream /\ [][NextStream]_vars

\* the display cursor and the collapsed flag between sends
NextNav ==
    \/ onSend
    \/ \E t \in Tasks : performSendStart(t)
    \/ \E t \in Tasks : conversationStarted(t, "ok")
    \/ \E t \in Tasks : historyLoaded(t, "ok", FALSE)
    \/ \E t \in Tasks : streamOpened(t, "ok")
    \/ \E t \in Tasks, evt \in ShortEvents, answer \in SrvContents :
          streamEvent(t, evt, answer, FALSE)
    \/ \E t \in Tasks : streamEnded(t)
    \/ \E t \in Tasks : finalLoaded(t, "ok")
    \/ \E turnIndex \in TurnArgs : goToTurn(turnIndex)
    \/ goToNextTurn
    \/ goToPreviousTurn
    \/ goToLatestTurn
    \/ \E mode \in DisplayModes : setDisplayMode(mode)

SpecNav == Init /\ [][NextNav]_vars

\* the events of a stream that answers without text
DoneEvents == {Event("complete", <<>>, <<>>)}

\* the context snapshot: the host installs a provider, sends create sessions (or
\* fail to), and the session is reset by clearConversation
NextContext ==
    \/ onSend
    \/ \E t \in Tasks : performSendStart(t)
    \/ \E t \in Tasks, result \in ProviderReturns : contextCaptured(t, result)
    \/ \E t \in Tasks, r \in Answers : conversationStarted(t, r)
    \/ \E t \in Tasks : historyLoaded(t, "ok", FALSE)
    \/ \E t \in Tasks : streamOpened(t, "ok")
    \/ \E t \in Tasks, evt \in DoneEvents, answer \in SrvContents :
          streamEvent(t, evt, answer, FALSE)
    \/ \E t \in Tasks : streamEnded(t)
    \/ \E t \in Tasks : finalLoaded(t, "ok")
    \/ \E installed \in BOOLEAN : setContextProvider(installed)
    \/ clearConversation
    \/ \E enabled \in BOOLEAN : setCommandMode(enabled)

SpecContext == Init /\ [][NextContext]_vars

\* command mode: sends, and the undo and restart requests it ignores
NextCommand ==
    \/ onSend
    \/ \E t \in Tasks : performSendStart(t)
    \/ \E t \in Tasks : conversationStarted(t, "ok")
    \/ \E t \in Tasks : historyLoaded(t, "ok", FALSE)
    \/ \E t \in Tasks : streamOpened(t, "ok")
    \/ \E t \in Tasks, evt \in ShortEvents, answer \in SrvContents :
          streamEvent(t, evt, answer, FALSE)
    \/ \E t \in Tasks : streamEnded(t)
    \/ \E t \in Tasks : finalLoaded(t, "ok")
    \/ onUndo
    \/ onRestart

SpecCommand == InitCommand /\ [][NextCommand]_vars

\* sends while the host makes the component collapsible, collapses and expands it
NextCollapse ==
    \/ onSend
    \/ \E t \in Tasks : performSendStart(t)
    \/ \E t \in Tasks : conversationStarted(t, "ok")
    \/ \E t \in Tasks : historyLoaded(t, "ok", FALSE)
    \/ \E t \in Tasks : streamOpened(t, "ok")
    \/ \E t \in Tasks, evt \in DoneEvents, answer \in SrvContents :
          streamEvent(t, evt, answer, FALSE)
    \/ \E t \in Tasks : streamEnded(t)
    \/ \E t \in Tasks : finalLoaded(t, "ok")
    \/ \E enabled \in BOOLEAN : setCollapsible(enabled)
    \/ \E present \in BOOLEAN : collapsibleAttributeChanged(present)
    \/ collapse
    \/ expand
    \/ toggleCollapse

SpecCollapse == Init /\ [][NextCollapse]_vars

\* the display cursor across sends, undo, restart, display-mode changes and
\* navigation
NextCursor ==
    \/ onSend
    \/ \E t \in Tasks : performSendStart(t)
    \/ \E t \in Tasks : conversationStarted(t, "ok")
    \/ \E t \in Tasks : historyLoaded(t, "ok", FALSE)
    \/ \E t \in Tasks : streamOpened(t, "ok")
    \/ \E t \in Tasks, evt \in DoneEvents, answer \in SrvContents :
          streamEvent(t, evt, answer, FALSE)
    \/ \E t \in Tasks : streamEnded(t)
    \/ \E t \in Tasks : finalLoaded(t, "ok")
    \/ onUndo
    \/ \E t \in Tasks : undoAnswered(t, "ok")
    \/ \E t \in Tasks : undoLoaded(t, "ok")
    \/ onRestart
    \/ \E turnIndex \in TurnArgs : goToTurn(turnIndex)
    \/ goToNextTurn
    \/ goToPreviousTurn
    \/ \E mode \in DisplayModes : setDisplayMode(mode)

SpecCursor == Init /\ [][NextCursor]_vars

\* the events of a stream that asks for tool t1 or completes
SuspendEvents ==
    {Event("external_tool_call", <<>>, <<"t1">>), Event("complete", <<>>, <<>>)}

\* undo and restart requested while a send is in progress or suspended for a tool call
NextSuspend ==
    \/ onSend
    \/ \E t \in Tasks : performSendStart(t)
    \/ \E t \in Tasks : conversationStarted(t, "ok")
    \/ \E t \in Tasks : historyLoaded(t, "ok", FALSE)
    \/ \E t \in Tasks : streamOpened(t, "ok")
    \/ \E t \in Tasks, evt \in SuspendEvents, answer \in SrvContents :
          streamEvent(t, evt, answer, FALSE)
    \/ \E t \in Tasks : streamEnded(t)
    \/ \E t \in Tasks : finalLoaded(t, "ok")
    \/ \E t \in Tasks, outcome \in HandlerOutcomes : handlerReturned(t, outcome)
    \/ registerTool("t1")
    \/ onUndo
    \/ \E t \in Tasks : undoAnswered(t, "ok")
    \/ \E t \in Tasks : undoLoaded(t, "ok")
    \/ onRestart

SpecSuspend == Init /\ [][NextSuspend]_vars

\* sends with attachments: files are uploaded before and during a send, the message
\* may exceed the configured length, the conversation may have reached maxTurns
NextAttach ==
    \/ onSend
    \/ \E t \in Tasks, tooLong \in BOOLEAN : performSendChecked(t, tooLong)
    \/ \E t \in Tasks, r \in Answers : conversationStarted(t, r)
    \/ \E t \in Tasks, r \in Answers : historyLoaded(t, r, FALSE)
    \/ \E t \in Tasks, r \in Answers : streamOpened(t, r)
    \/ \E t \in Tasks, evt \in DoneEvents, answer \in SrvContents :
          streamEvent(t, evt, answer, FALSE)
    \/ \E t \in Tasks : streamEnded(t)
    \/ \E t \in Tasks, r \in Answers : finalLoaded(t, r)
    \/ \E a \in AttachmentIds : attachmentUploaded(a)
    \/ \E n \in TurnLimits : configLoaded(n)

SpecAttach == Init /\ [][NextAttach]_vars

\* the events a host feeds in and a resumed stream delivers
ManualEvents ==
    {Event("token", <<"a">>, <<>>), Event("complete", <<>>, <<>>),
     Event("cancelled", <<>>, <<>>)}

\* the manual protocol: the host feeds events of a stream it reads itself, prepares
\* the resume and submits tool results
NextManual ==
    \/ beginResumeStream(FALSE)
    \/ \E evt \in ManualEvents : ingestStreamEvent(evt, FALSE)
    \/ \E results \in HostResults : submitExternalToolResults(results)
    \/ \E t \in Tasks, r \in Answers : conversationStarted(t, r)
    \/ \E t \in Tasks, r \in Answers : historyLoaded(t, r, FALSE)
    \/ \E t \in Tasks, r \in Answers : streamOpened(t, r)
    \/ \E t \in Tasks, evt \in ManualEvents, answer \in SrvContents :
          streamEvent(t, evt, answer, FALSE)
    \/ \E t \in Tasks : streamEnded(t)
    \/ \E t \in Tasks : streamFailed(t)
    \/ \E t \in Tasks, r \in Answers : finalLoaded(t, r)

SpecManual == Init /\ [][NextManual]_vars

\* the events of a stream, of every type the handler knows and of one it does not;
\* the tool calls name a tool without handler
AllEvents ==
    {Event("token", <<"a">>, <<>>), Event("assistant_message", <<"b">>, <<>>),
     Event("message", <<"c">>, <<>>), Event("error", <<"e">>, <<>>),
     Event("status", <<"d">>, <<>>), Event("complete", <<>>, <<>>),
     Event("cancelled", <<>>, <<>>), Event("external_tool_call", <<>>, <<"t1">>),
     Event("external_tool_call", <<>>, <<>>)}

\* stream events of every type, read from the controller's own stream or fed in
\* by the host
NextEvents ==
    \/ onSend
    \/ \E t \in Tasks : performSendStart(t)
    \/ \E t \in Tasks : conversationStarted(t, "ok")
    \/ \E t \in Tasks : historyLoaded(t, "ok", FALSE)
    \/ \E t \in Tasks : streamOpened(t, "ok")
    \/ \E t \in Tasks, evt \in AllEvents, answer \in SrvContents :
          streamEvent(t, evt, answer, FALSE)
    \/ \E t \in Tasks : streamEnded(t)
    \/ \E t \in Tasks : finalLoaded(t, "ok")
    \/ \E evt \in AllEvents : ingestStreamEvent(evt, FALSE)

SpecEvents == Init /\ [][NextEvents]_vars

\* sends and host submissions whose service calls are all answered and whose
\* streams all end
NextLive ==
    \/ onSend
    \/ \E t \in Tasks : performSendStart(t)
    \/ \E results \in HostResults : submitExternalToolResults(results)
    \/ \E t \in Tasks, r \in Answers : conversationStarted(t, r)
    \/ \E t \in Tasks, r \in Answers : historyLoaded(t, r, FALSE)
    \/ \E t \in Tasks, r \in Answers : streamOpened(t, r)
    \/ \E t \in Tasks : streamEnded(t)
    \/ \E t \in Tasks : streamFailed(t)
    \/ \E t \in Tasks, r \in Answers : finalLoaded(t, r)

\* the service call operation t awaits resolves or rejects, the stream it reads ends
Answered(t) ==
    \/ \E r \in Answers : conversationStarted(t, r)
    \/ \E r \in Answers : historyLoaded(t, r, FALSE)
    \/ \E r \in Answers : streamOpened(t, r)
    \/ streamEnded(t)
    \/ streamFailed(t)
    \/ \E r \in Answers : finalLoaded(t, r)

SpecLive == Init /\ [][NextLive]_vars /\ \A t \in Tasks : WF_vars(Answered(t))

\* ------------------------------------------------------------------ sends and streams
\* the phases of a send after it has set isStreaming
StreamingPhases == {"ecFetch", "ecStart", "ecLoad", "open", "stream", "final"}

SendsStreaming ==
    {t \in Tasks : tasks[t].kind = "send" /\ tasks[t].pc \in StreamingPhases}

\* C1: sends are mutually exclusive: at most one send is in its streaming phase
\* (has set isStreaming and not yet finished) at a time
C1_SendsMutuallyExclusive == Cardinality(SendsStreaming) <= 1

\* the streaming assistant message exists and has this content
StreamingContentIs(content) ==
    /\ streamingAssistantMessageId # NoId
    /\ FindIndex(messages, streamingAssistantMessageId) # 0
    /\ messages[FindIndex(messages, streamingAssistantMessageId)].content = content

\* the last assistant message exists and has this content
LastAssistantContentIs(content) ==
    /\ LastAssistantIndex(messages) # 0
    /\ messages[LastAssistantIndex(messages)].content = content

\* C2: token deltas are applied in arrival order without loss: while a send's
\* stream has delivered only tokens d1..dk the streaming message's content is
\* d1+...+dk, and when complete follows the content is d1+...+dn, isStreaming is
\* false and the turn count is one more than before the send
C2_TokensInOrder ==
    \A t \in Tasks :
        tasks[t].kind = "send" /\ tasks[t].pc = "stream" /\ tasks[t].pure =>
            /\ tasks[t].end = "none" /\ tasks[t].deltas # <<>> =>
                  StreamingContentIs(tasks[t].deltas)
            /\ tasks[t].end = "complete" =>
                  /\ LastAssistantContentIs(tasks[t].deltas)
                  /\ ~isStreaming
                  /\ getTurnCount(messages) = tasks[t].turns0 + 1

NoTempMessages == \A i \in 1..Len(messages) : ~IsTemp(messages[i].id)

C7_OverrideApplied ==
    last.op = "sendDone" /\ last.data # <<>> => LastAssistantContentIs(last.data)

\* ------------------------------------------------------------------ tool calls
HasEvent(events, name) == \E i \in 1..Len(events) : events[i].name = name

\* C4: an external_tool_call that names a tool without a registered handler
\* starts no handler (so nothing is submitted and no stream is resumed), emits
\* the error notification, shows the error and leaves isStreaming false
C4_AllOrNothing ==
    [][(last'.op = "external_tool_call"
            /\ MissingHandlers(last'.data, toolRegistry) # <<>>) =>
          /\ \A u \in Tasks : tasks'[u].pc = "handler" => tasks'[u] = tasks[u]
          /\ nBatches' = nBatches
          /\ HasEvent(out', "error")
          /\ inlineError' = "missing-handlers"
          /\ isStreaming' = FALSE]_vars

\* two calls are requested and exactly one of them has a handler
C4_Witness ==
    /\ last.op = "external_tool_call"
    /\ Len(last.data) = 2
    /\ Len(MissingHandlers(last.data, toolRegistry)) = 1
    /\ \A u \in Tasks : tasks[u].pc # "handler"

\* the results a batch owes after its first handlers ended as rets says: none for
\* a handler that returned nothing, the synthesized error for one that threw
RECURSIVE ResultsOwed(_, _, _)
ResultsOwed(calls, rets, i) ==
    IF i > Len(rets) THEN <<>>
    ELSE (IF rets[i] = "null" THEN <<>>
          ELSE <<[toolCallId |-> i, name |-> calls[i],
                  content |-> IF rets[i] = "throw" THEN "error" ELSE "ok"]>>)
         \o ResultsOwed(calls, rets, i + 1)

C6_ResultsSubmitted ==
    ~(last.op = "submitSkipped" /\ \A i \in 1..Len(last.data) : last.data[i] = "ok")

\* C8: while a resumed stream is in flight isStreaming is true and the streaming
\* cursor is set
C8_ResumeKeepsStreaming ==
    (\E t \in Tasks : tasks[t].kind = "tools" /\ tasks[t].pc = "stream"
                      /\ tasks[t].end = "none")
        => isStreaming /\ streamingAssistantMessageId # NoId

\* ------------------------------------------------------------------ navigation, undo
\* C9: goToTurn(k) with k < 1 or k > turn count, or in a display mode other than
\* last-turn, changes no state variable and emits no notification
C9_GoToTurnNoOp ==
    [][(last'.op = "goToTurn"
            /\ (\/ last'.arg < 1
                \/ last'.arg > getTurnCount(messages)
                \/ displayMode # "last-turn")) =>
          /\ UNCHANGED <<ctlVars, uiVars, toolRegistry, contextProvider, srv, tasks, cntVars>>
          /\ out' = <<>>]_vars

\* goToTurn(3) was called in last-turn mode with two turns and the cursor on turn 1
C9_Witness ==
    /\ last.op = "goToTurn"
    /\ last.arg = 3
    /\ displayMode = "last-turn"
    /\ getTurnCount(messages) = 2
    /\ activeTurnIndex = 1
    /\ out = <<>>

\* C10: the three outcomes of undo: `deleted` ends with undo-complete; `none`
\* requests no history, changes no message and emits nothing; `conflict` shows an
\* error and leaves the message list unchanged
C10_UndoOutcomes ==
    [][/\ last'.op = "undoDeleted" => HasEvent(out', "undo-complete")
       /\ \A t \in Tasks : tasks'[t].pc # "loadNone"
       /\ last'.op = "undoNone" => messages' = messages /\ out' = <<>>
       /\ last'.op = "undoConflict" =>
             messages' = messages /\ inlineError' = "undo-conflict"]_vars

\* ------------------------------------------------------------------ undo, restart, command mode
\* C11: undo requested while isStreaming is true or while command mode is enabled
\* sends no delete request, changes no field and emits no notification
C11_UndoNoOp ==
    [][(last'.op \in {"undo", "undoIgnored"} /\ (isStreaming \/ commandMode)) =>
          /\ UNCHANGED <<ctlVars, uiVars, toolRegistry, contextProvider, srv, tasks, cntVars>>
          /\ out' = <<>>]_vars

\* undo was requested while a response was streaming into a conversation that has
\* messages, in normal mode
C11_Witness ==
    /\ last.op = "undoIgnored"
    /\ isStreaming
    /\ ~commandMode
    /\ messages # <<>>
    /\ conversationId # 0

\* C12: restart and clearConversation discard the conversation id, the messages
\* and the auth error and reset activeTurnIndex; while isStreaming is true each of
\* them leaves all of these unchanged
C12_ResetOrNoOp ==
    [][/\ (last'.op \in {"restart", "clearConversation"} /\ ~isStreaming) =>
             /\ conversationId' = 0
             /\ messages' = <<>>
             /\ authError' = "none"
             /\ activeTurnIndex' = 0
       /\ (last'.op \in {"restart", "restartIgnored", "clearConversation"} /\ isStreaming) =>
             UNCHANGED <<conversationId, conversationContext, messages, authError, activeTurnIndex>>]_vars

\* C13: in command mode a send discards the previous conversation id and
\* messages when it is called, the list a command-mode send ends with has at most
\* one turn, and undo and restart change nothing
C13_CommandMode ==
    [][/\ (last'.op = "send" /\ commandMode) =>
             conversationId' = 0 /\ messages' = <<>>
       /\ (last'.op = "sendDone" /\ commandMode) => getTurnCount(messages') <= 1
       /\ (last'.op \in {"undo", "undoIgnored", "restart", "restartIgnored"} /\ commandMode) =>
             /\ UNCHANGED <<ctlVars, uiVars, toolRegistry, contextProvider, srv, tasks, cntVars>>
             /\ out' = <<>>]_vars

\* ------------------------------------------------------------------ context snapshot
\* C14: while the conversation id is set and does not change the context snapshot
\* does not change; the snapshot a session is created with is the one the
\* provider returned to the operation that creates it (both stated for an
\* operation that runs with no other in between); the snapshot is cleared only
\* together with the conversation id
C14_SnapshotPerSession ==
    [][/\ (conversationId # 0 /\ conversationId' = conversationId
            /\ \A t \in Tasks : tasks[t].kind # "free" => Alone(t)) =>
             conversationContext' = conversationContext
       /\ \A t \in Tasks :
             (tasks[t].pc = "ecStart" /\ tasks'[t].pc = "ecLoad" /\ Alone(t)
                  /\ conversationContext' # "none") =>
                tasks[t].captured = conversationContext'
       /\ (conversationContext # "none" /\ conversationContext' = "none") =>
             conversationId' = 0]_vars

\* a send whose provider gave no context and that ran with no other operation in
\* between has no snapshot and has asked for its stream without client context
NoContextSent ==
    \A t \in Tasks :
        (tasks[t].kind = "send" /\ tasks[t].captured \in {"null", "throws"} /\ Alone(t)) =>
            /\ conversationContext = "none"
            /\ tasks[t].clientContext = "none"

C15_HostSubmitAlwaysSubmits ==
    [][(last'.op \in {"hostSubmit", "hostSubmitIgnored"}
          /\ \A t \in Tasks : tasks[t].kind = "free") =>
         \E t \in Tasks :
            /\ tasks'[t].kind = "tools"
            /\ tasks'[t].pc \in {"ecFetch", "ecContext", "ecStart"}
            /\ tasks'[t].results # <<>>]_vars

\* C17: a service call of a send, an undo or a tool-result submission that is
\* answered with a structured authentication error records authError and emits
\* auth-error and neither error nor undo-error; any other failure emits error or
\* undo-error and leaves authError as it was; the failed operation ends and no
\* operation is started in its place
C17_AuthErrorsDistinct ==
    [][last'.op \in {"sendFailed", "submitFailed", "undoFailed"} =>
         /\ last'.resp = "auth" =>
              /\ authError' = "auth"
              /\ HasEvent(out', "auth-error")
              /\ ~HasEvent(out', "error")
              /\ ~HasEvent(out', "undo-error")
         /\ last'.resp = "generic" =>
              /\ authError' = authError
              /\ HasEvent(out', "error") \/ HasEvent(out', "undo-error")
              /\ ~HasEvent(out', "auth-error")
         /\ \A t \in Tasks : tasks'[t] # tasks[t] => tasks'[t] = FreeTask]_vars

\* operation t is a send or a tool-result submission that has set isStreaming
HasSetStreaming(t) ==
    /\ tasks[t].kind \in {"send", "tools"}
    /\ tasks[t].pc \in {"ecFetch", "ecContext", "ecStart", "ecLoad", "open", "stream", "final"}

\* C18: when every service call is answered and every stream ends, a send or a
\* tool-result submission that has set isStreaming is followed by a state with
\* isStreaming false and no streaming message, on success and on failure
C18_NeverStuckStreaming ==
    \A t \in Tasks :
        HasSetStreaming(t) ~> (~isStreaming /\ streamingAssistantMessageId = NoId)

\* a submission whose resume request was rejected has ended with the flag and the
\* cursor restored
C18_Witness ==
    /\ last.op = "submitFailed"
    /\ last.resp = "auth"
    /\ ~isStreaming
    /\ streamingAssistantMessageId = NoId
    /\ \A t \in Tasks : tasks[t].kind = "free"

\* the types of the events in AllEvents that are no external_tool_call
NotifiedTypes ==
    {"token", "assistant_message", "message", "error", "status", "complete", "cancelled"}

\* C19: in the step in which a stream event other than external_tool_call is
\* handled, exactly one notification is dispatched: it is named after the event's
\* type, carries the event's data and is dispatched after the event's state
\* mutation (its listener reads the state the step ends in); so notifications leave
\* in the order the events arrive; no notification is named external_tool_call
C19_EventsReEmitted ==
    [][/\ last'.op \in NotifiedTypes =>
             /\ Len(out') = 1
             /\ out'[1].name = last'.op
             /\ out'[1].detail = last'.data
             /\ out'[1].seen = <<messages', isStreaming', streamingAssistantMessageId',
                                 sanitizedMessageContent', inlineError'>>
       /\ ~HasEvent(out', "external_tool_call")]_vars

\* an event of a type the handler does not know has been fed in after a token
\* and has been re-emitted with its data
C19_Witness ==
    /\ last.op = "status"
    /\ last.arg = 1
    /\ Len(out) = 1
    /\ out[1].name = "status"
    /\ out[1].detail = <<"d">>
    /\ streamingAssistantMessageId # NoId

\* C20: a complete and a cancelled event each set isStreaming false and clear the
\* streaming message, and a history fetch follows: for an event read from the
\* controller's own stream the reading operation goes on to loadConversation of
\* the current conversation; for an event fed in through ingestStreamEvent while a
\* message is streaming an operation that fetches the history is started
C20_TurnTerminated ==
    [][last'.op \in {"complete", "cancelled"} =>
         /\ ~isStreaming'
         /\ streamingAssistantMessageId' = NoId
         /\ last'.arg = 0 =>
              \E t \in Tasks :
                 /\ tasks[t].pc = "stream"
                 /\ tasks'[t].pc = "stream"
                 /\ tasks'[t].end = last'.op
                 /\ conversationId' # 0
         /\ (last'.arg = 1 /\ streamingAssistantMessageId # NoId) =>
              \E t \in Tasks : tasks[t].kind = "free" /\ tasks'[t].kind # "free"]_vars

\* C21: a send called while the component is collapsible and collapsed expands it
\* (isCollapsed false, one expanded notification) in the step of the call, in which
\* no message is appended, isStreaming is not set and no stream-start is emitted;
\* the send is then at the same point as a send from the expanded state, and the
\* steps that emit stream-start and append the optimistic messages come later
C21_ExpandFirst ==
    [][/\ (last'.op = "send" /\ collapsible /\ isCollapsed) =>
             /\ ~isCollapsed'
             /\ out' = <<Ev("expanded")>>
             /\ messages' = messages
             /\ isStreaming' = isStreaming
             /\ \E t \in Tasks :
                   /\ tasks[t].kind = "free"
                   /\ tasks'[t].kind = "send"
                   /\ tasks'[t].pc = "resolve"
       /\ (last'.op = "send" /\ ~(collapsible /\ isCollapsed)) =>
             /\ isCollapsed' = isCollapsed
             /\ out' = <<>>
       /\ HasEvent(out', "stream-start") =>
             \E t \in Tasks : tasks[t].pc = "resolve" /\ tasks'[t].pc # "resolve"
       /\ (\E i \in 1..Len(messages') : messages'[i].id[1] = "temp-user"
              /\ \A j \in 1..Len(messages) : messages[j].id # messages'[i].id) =>
             \E t \in Tasks : tasks[t].pc \in {"ecFetch", "ecLoad"} /\ tasks'[t].pc = "open"]_vars

\* a send was called on a collapsed component, which is expanded now
C21_Witness ==
    /\ last.op = "send"
    /\ out = <<Ev("expanded")>>
    /\ collapsible
    /\ ~isCollapsed
    /\ \E t \in Tasks : tasks[t].kind = "send" /\ tasks[t].pc = "resolve"

\* C22: in last-turn mode with n turns and current turn c, goToPreviousTurn with
\* c > 1 moves the cursor and the visible turn to c - 1, goToNextTurn with c < n to
\* c + 1, and each successful goToTurn, next or previous emits exactly one
\* turn-navigation {new index, n}; at the bounds nothing changes and nothing is emitted
C22_Navigation ==
    [][displayMode = "last-turn" =>
         /\ last'.op = "goToPreviousTurn" =>
              IF CurrentTurn > 1
              THEN /\ activeTurnIndex' = CurrentTurn - 1
                   /\ VisibleTurn' = CurrentTurn - 1
                   /\ out' = <<EvNav(CurrentTurn - 1, getTurnCount(messages))>>
              ELSE /\ out' = <<>>
                   /\ UNCHANGED <<ctlVars, uiVars, toolRegistry, contextProvider, srv, tasks, cntVars>>
         /\ last'.op = "goToNextTurn" =>
              IF CurrentTurn < getTurnCount(messages)
              THEN /\ activeTurnIndex' = CurrentTurn + 1
                   /\ VisibleTurn' = CurrentTurn + 1
                   /\ out' = <<EvNav(CurrentTurn + 1, getTurnCount(messages))>>
              ELSE /\ out' = <<>>
                   /\ UNCHANGED <<ctlVars, uiVars, toolRegistry, contextProvider, srv, tasks, cntVars>>
         /\ (last'.op = "goToTurn" /\ last'.arg >= 1 /\ last'.arg <= getTurnCount(messages)) =>
              /\ activeTurnIndex' = last'.arg
              /\ VisibleTurn' = last'.arg
              /\ out' = <<EvNav(last'.arg, getTurnCount(messages))>>]_vars

\* C23: in last-turn mode with activeTurnIndex null, a step that adds turns to the
\* message list (a send's optimistic append or a history reload) leaves
\* activeTurnIndex null and makes the new last turn the visible one
C23_LatestFollow ==
    [][(displayMode = "last-turn" /\ activeTurnIndex = 0
          /\ getTurnCount(messages') > getTurnCount(messages)) =>
         /\ activeTurnIndex' = 0
         /\ VisibleTurn' = getTurnCount(messages')]_vars

\* a second turn has just been appended by a send while the cursor is null
C23_Witness ==
    /\ displayMode = "last-turn"
    /\ activeTurnIndex = 0
    /\ getTurnCount(messages) = 2
    /\ VisibleTurn = 2
    /\ \E t \in Tasks : tasks[t].kind = "send" /\ tasks[t].pc = "open" /\ tasks[t].turns0 = 1
    /\ \A t \in Tasks : tasks[t].pc \in {"free", "open"}

\* the positions of the message list that hold the streaming message
StreamingPositions ==
    {i \in 1..Len(messages) :
        streamingAssistantMessageId # NoId /\ messages[i].id = streamingAssistantMessageId}

\* C24: streamingAssistantMessageId is null whenever isStreaming is false, and at
\* most one message of the list is the streaming message
C24_CursorInvariant ==
    /\ ~isStreaming => streamingAssistantMessageId = NoId
    /\ Cardinality(StreamingPositions) <= 1

\* C25: activeTurnIndex is null or a turn of the list (1 <= activeTurnIndex <= turn
\* count), and getCurrentTurnIndex reports a turn of the list when turns exist
C25_CursorInRange ==
    /\ activeTurnIndex = 0
          \/ (activeTurnIndex >= 1 /\ activeTurnIndex <= getTurnCount(messages))
    /\ (displayMode = "last-turn" /\ getTurnCount(messages) > 0) =>
          (getCurrentTurnIndex >= 1 /\ getCurrentTurnIndex <= getTurnCount(messages))

\* C26: when streamingAssistantMessageId is not null, a message with that id is in
\* the message list
C26_CursorNeverDangles ==
    streamingAssistantMessageId # NoId =>
        FindIndex(messages, streamingAssistantMessageId) # 0

\* a send is between its stream-start and its end
SendInProgress ==
    \E t \in Tasks : tasks[t].kind = "send" /\ HasSetStreaming(t)

\* C27: while a send is between its stream-start and its end, a requested undo
\* or restart takes no effect: no delete request is sent, and the message list and
\* the session are not changed by it
C27_NoUndoDuringSend ==
    [][(SendInProgress /\ last'.op \in {"undo", "undoIgnored", "restart", "restartIgnored"}) =>
         /\ last'.op \in {"undoIgnored", "restartIgnored"}
         /\ UNCHANGED <<conversationId, conversationContext, messages, tasks>>]_vars

\* C28: when a tool-result submission reaches its resume request while a streaming
\* message exists in the list, that message stays the streaming message and stays
\* in the list, and no further placeholder is appended
C28_ResumeReusesSlot ==
    [][\A t \in Tasks :
          (/\ tasks[t].kind = "tools"
           /\ tasks[t].pc \in {"ecFetch", "ecLoad"}
           /\ tasks'[t].pc = "open"
           /\ streamingAssistantMessageId # NoId
           /\ FindIndex(messages, streamingAssistantMessageId) # 0) =>
             /\ streamingAssistantMessageId' = streamingAssistantMessageId
             /\ FindIndex(messages', streamingAssistantMessageId) # 0
             /\ Len(SelectSeq(messages', IsPlaceholder)) <= Len(SelectSeq(messages, IsPlaceholder))]_vars

\* C29: a send that took attachments off the queue and then fails (a service call
\* of it is rejected) or is rejected itself (message too long, maxTurns reached)
\* leaves all of those attachments in the pending queue
C29_AttachmentsRestored ==
    [][/\ last'.op \in {"sendTooLong", "sendMaxTurns"} =>
            HoldsAll(pendingAttachments', pendingAttachments)
       /\ \A t \in Tasks :
            (tasks[t].kind = "send" /\ tasks'[t].kind = "free" /\ last'.op = "sendFailed") =>
                HoldsAll(pendingAttachments', tasks[t].pending)]_vars

\* C30: an attachment uploaded since a send took the queue, and queued when that
\* send ends, is still queued once it has ended, successfully or not
C30_UploadsDuringSendKept ==
    [][\A t \in Tasks :
          (tasks[t].kind = "send" /\ tasks[t].pc # "resolve" /\ tasks'[t].kind = "free") =>
              \A i \in 1..Len(tasks[t].uploads) :
                  InQueue(pendingAttachments, tasks[t].uploads[i]) =>
                      InQueue(pendingAttachments', tasks[t].uploads[i])]_vars

\* the wf-complete notifications among the events of one run
Completes(events) == Cardinality({i \in 1..Len(events) : events[i].name = "complete"})

\* the wf-complete notifications the stream of operation t has caused so far: one,
\* re-emitted by handleSseEvent, once the stream has delivered `complete`
CompletesBefore(t) == IF tasks[t].end = "complete" THEN 1 ELSE 0

\* C31: over a send, wf-complete is emitted exactly once when the send succeeds
\* and not at all when it fails
C31_CompleteOnce ==
    [][\A t \in Tasks :
          (tasks[t].kind = "send" /\ tasks'[t].kind = "free") =>
              /\ last'.op = "sendDone" => CompletesBefore(t) + Completes(out') = 1
              /\ last'.op = "sendFailed" => CompletesBefore(t) + Completes(out') = 0]_vars

\* no operation is in flight
Idle == \A t \in Tasks : tasks[t].kind = "free"

\* msgs is hist, apart from the content of the last Assistant message of hist
ServerTruth(msgs, hist) ==
    /\ Len(msgs) = Len(hist)
    /\ \A i \in 1..Len(hist) :
          /\ msgs[i].id = hist[i].id
          /\ msgs[i].role = hist[i].role
          /\ i # LastAssistantIndex(hist) => msgs[i].content = hist[i].content

C33_VisibleTurns ==
    last.op = "updateThread" =>
        LET turns == last.data[1]
            shown == last.data[2]
        IN  /\ displayMode = "full" => shown = turns
            /\ (displayMode = "last-turn" /\ Len(turns) > 0) =>
                  shown = <<IF activeTurnIndex >= 1 /\ activeTurnIndex <= Len(turns)
                            THEN turns[activeTurnIndex]
                            ELSE turns[Len(turns)]>>
            /\ Len(turns) = 0 => shown = <<>>

\* two turns in last-turn mode with the cursor beyond them: the second is displayed
C33_Witness ==
    /\ last.op = "updateThread"
    /\ displayMode = "last-turn"
    /\ Len(last.data[1]) = 2
    /\ activeTurnIndex = 3
    /\ last.data[2] = <<last.data[1][2]>>

\* the positions of a list, and the messages at some of them
Indices(msgs) == [i \in 1..Len(msgs) |-> i]
PickAt(msgs, idx) == [k \in 1..Len(idx) |-> msgs[idx[k]]]

\* the number of the turn position i falls in: the User messages up to i
TurnOf(msgs, i) == Cardinality({j \in 1..i : msgs[j].role = "User"})

\* the messages of all turns, in order
RECURSIVE Flatten(_)
Flatten(turns) ==
    IF turns = <<>> THEN <<>>
    ELSE <<turns[1].user>> \o turns[1].assistants \o Flatten(Tail(turns))

\* turn k is the k-th User message followed by the Assistant messages up to the
\* next User message
TurnHolds(msgs, turn, k) ==
    LET IsKthUser(i) == msgs[i].role = "User" /\ TurnOf(msgs, i) = k
        IsItsAssistant(i) == msgs[i].role = "Assistant" /\ TurnOf(msgs, i) = k
    IN  /\ <<turn.user>> = PickAt(msgs, SelectSeq(Indices(msgs), IsKthUser))
        /\ turn.assistants = PickAt(msgs, SelectSeq(Indices(msgs), IsItsAssistant))

\* C34 (as stated): the turns are as many as the User messages, each is one User
\* message followed by the Assistant messages up to the next User message, and the
\* messages of all turns in order are the original list without the Assistant
\* messages that precede the first User message
C34_TurnGrouping ==
    last.op = "updateThread" =>
        LET turns == last.data[1]
            NotOrphan(i) == ~(messages[i].role = "Assistant" /\ TurnOf(messages, i) = 0)
        IN  /\ Len(turns) = Len(SelectSeq(messages, IsUser))
            /\ Len(turns) = getTurnCount(messages)
            /\ \A k \in 1..Len(turns) : TurnHolds(messages, turns[k], k)
            /\ Flatten(turns) = PickAt(messages, SelectSeq(Indices(messages), NotOrphan))

\* C34 (amended): as above, but the messages of all turns in order are the User
\* and Assistant messages of the original list without the Assistant messages
\* that precede the first User message: System and Tool messages are in no turn
C34_TurnGroupingShown ==
    last.op = "updateThread" =>
        LET turns == last.data[1]
            Grouped(i) == \/ messages[i].role = "User"
                          \/ messages[i].role = "Assistant" /\ TurnOf(messages, i) > 0
        IN  /\ Len(turns) = Len(SelectSeq(messages, IsUser))
            /\ Len(turns) = getTurnCount(messages)
            /\ \A k \in 1..Len(turns) : TurnHolds(messages, turns[k], k)
            /\ Flatten(turns) = PickAt(messages, SelectSeq(Indices(messages), Grouped))

\* a list User, Tool, Assistant is grouped into one turn of the User message and
\* the Assistant message
C34_Witness ==
    /\ last.op = "updateThread"
    /\ Len(messages) = 3
    /\ messages[1].role = "User"
    /\ messages[2].role = "Tool"
    /\ messages[3].role = "Assistant"
    /\ last.data[1] = <<[user |-> messages[1], assistants |-> <<messages[3]>>]>>

\* the lines of a body, read off its newlines: line k lies between newline k - 1
\* and newline k
Newlines(bytes) == {i \in 1..Len(bytes) : bytes[i] = "LF"}
NewlineNo(bytes, k) ==
    IF k = 0 THEN 0
    ELSE CHOOSE i \in Newlines(bytes) : Cardinality({j \in Newlines(bytes) : j <= i}) = k
LinesOf(bytes) ==
    [k \in 1..Cardinality(Newlines(bytes)) |->
        Decode(<<>>, SubSeq(bytes, NewlineNo(bytes, k - 1) + 1, NewlineNo(bytes, k) - 1)).text]

\* a data line with a JSON payload
WellFormed(line) == StartsWith(line, DataPrefix) /\ JsonParse(Slice(line, 6)).ok

\* the type of the event of line i: that of the last event line before it with no
\* blank line in between, "data" when there is none or it names no type
TypeAt(lines, i) ==
    LET named == {j \in 1..(i - 1) :
                     /\ StartsWith(lines[j], EventPrefix)
                     /\ \A m \in (j + 1)..(i - 1) : lines[m] # <<>>}
    IN  IF named = {} THEN DataType
        ELSE LET j == CHOOSE x \in named : \A y \in named : y <= x
             IN  IF Slice(lines[j], 7) = <<>> THEN DataType ELSE Slice(lines[j], 7)

\* the events of the well-formed data lines, in the order of the lines
EventsOf(lines) ==
    LET IsEvent(i) == WellFormed(lines[i])
        at == SelectSeq(Indices(lines), IsEvent)
    IN  [k \in 1..Len(at) |->
            [type |-> TypeAt(lines, at[k]), data |-> JsonParse(Slice(lines[at[k]], 6)).value]]

IsPrefix(s, t) == Len(s) <= Len(t) /\ s = SubSeq(t, 1, Len(s))

HasBadPayload(lines) ==
    \E i \in 1..Len(lines) : StartsWith(lines[i], DataPrefix) /\ ~WellFormed(lines[i])

\* C35: of a body with a data line whose payload is no JSON, the reader delivers
\* the events of the well-formed data lines before and after it, each with the
\* type of its event line, in the order of arrival, and reads the body to its end
C35_BadPayloadDropped ==
    HasBadPayload(LinesOf(wire)) =>
        /\ IsPrefix(delivered, EventsOf(LinesOf(wire)))
        /\ wirePos = Len(wire) => delivered = EventsOf(LinesOf(wire))

\* event: a, data: 1, data: {, data: 1 has been read to the end: two events a
C35_Witness ==
    /\ wire = JoinLines(<<EventPrefix \o <<"a">>, DataPrefix \o <<"1">>,
                          DataPrefix \o <<"{">>, DataPrefix \o <<"1">>>>)
    /\ wirePos = Len(wire)
    /\ delivered = <<[type |-> <<"a">>, data |-> 1], [type |-> <<"a">>, data |-> 1]>>

\* the events a reader delivers that is handed the whole body in one chunk
ReadInOneChunk(bytes) ==
    HandleLines(SplitLines(<<>>, Decode(<<>>, bytes).text).lines, 1,
                [type |-> <<>>, events |-> <<>>]).events

\* C36: however a newline-terminated body was cut into chunks, once it has been
\* read the events delivered are those of the body read in one chunk
C36_ChunkingIrrelevant ==
    wirePos = Len(wire) => delivered = ReadInOneChunk(wire)

\* the body event: é, data: 1 has been read to its end, in chunks of any sizes:
\* the reader holds nothing back and has delivered the event of type é
C36_Witness ==
    /\ wire = JoinLines(<<EventPrefix \o <<"c3", "a9">>, DataPrefix \o <<"1">>>>)
    /\ wirePos = Len(wire)
    /\ buffer = <<>>
    /\ decoderRest = <<>>
    /\ delivered = <<[type |-> <<"é">>, data |-> 1]>>

\* C37: a collapsed conversation is collapsible, so that expand() or a send can
\* expand it again; and while collapsible is false collapse(), expand() and
\* toggleCollapse() change nothing and emit nothing
C37_CollapsedIsCollapsible ==
    /\ isCollapsed => collapsible
    /\ (last.op \in {"collapse", "expand", "toggleCollapse"} /\ ~collapsible) => out = <<>>

\* C38: the step that handles an error stream event shows the event's error
\* inline and leaves isStreaming, the streaming message id and the message list
\* as they were; the stream it was read from is still being read, so that later
\* events are applied
C38_ErrorDoesNotTerminate ==
    [][last'.op = "error" =>
         /\ inlineError' = "stream-error"
         /\ isStreaming' = isStreaming
         /\ streamingAssistantMessageId' = streamingAssistantMessageId
         /\ messages' = messages
         /\ last'.arg = 0 =>
              \E t \in Tasks :
                 /\ tasks[t].pc = "stream" /\ tasks[t].end = "none"
                 /\ tasks'[t].pc = "stream" /\ tasks'[t].end = "none"]_vars

\* after an error event the stream has delivered a token, which was appended to
\* the streaming message while the error is shown
C38_Witness ==
    /\ last.op = "token"
    /\ last.arg = 0
    /\ inlineError = "stream-error"
    /\ isStreaming
    /\ StreamingContentIs(<<"a">>)

====
